---- MODULE Spec2Model ----
(***************************************************************************)
(* A model of piff/pixelgrid.py: the PixelGrid PSF model (initialize,      *)
(* chisq, fit, normalize) acting on Star records.                          *)
(*                                                                         *)
(* Numbers.  The program computes in float64.  The model computes in exact *)
(* rational arithmetic: a number is a pair <<n, d>> in lowest terms with   *)
(* d > 0, and <<0, 0>> stands for every non-finite float (inf, -inf, nan), *)
(* which numpy produces silently on a division by zero and which every     *)
(* later operation propagates.                                             *)
(* The integers of the rationals are 32-bit: a result they cannot hold is  *)
(* Huge, every later operation propagates it, and a call that would        *)
(* produce one is left out of the model (the outcome "skip").              *)
(*                                                                         *)
(* Objects.  numpy arrays and Star records are objects with identity: the  *)
(* heap `arrs` holds the parameter arrays, `stars` holds the Star records, *)
(* and a Star names its parameter array by its index in `arrs`, so that an *)
(* in-place numpy operation (+=, /=) is seen through every reference.      *)
(*                                                                         *)
(* Specifications.  Spec is the driver of one star: build a model, make or *)
(* load a star, initialize it, then chisq, fit and normalize on the star   *)
(* returned last.  PairSpec has two stars share one model, with calls on   *)
(* any star held.  ConvSpec is the fit cycle on noise-free stamps.         *)
(* FixSpec is the compatibility loader _fix_kwargs on the dict of a file.  *)
(***************************************************************************)
EXTENDS Integers, Sequences, FiniteSets, TLC

\* ------------------------------------------------------------------------
\* Exact arithmetic standing for float64
\* ------------------------------------------------------------------------

\* largest product the exact arithmetic forms (the sum of two of them is a
\* 32-bit integer)
MaxInt == 1000000000

Abs(x) == IF x < 0 THEN -x ELSE x

RECURSIVE GCD(_, _)
GCD(a, b) == IF b = 0 THEN a ELSE GCD(b, a % b)

NaN == <<0, 0>>

\* a finite float whose exact value the 32-bit integers cannot hold
Huge == <<1, 0>>

IsFinite(x) == x[2] # 0

\* n/d in lowest terms; a zero denominator is a non-finite float
Rat(n, d) ==
    IF d = 0 THEN NaN
    ELSE IF n = 0 THEN <<0, 1>>
    ELSE LET g == GCD(Abs(n), Abs(d))
         IN  IF d < 0 THEN <<(0 - n) \div g, (0 - d) \div g>>
                      ELSE <<n \div g, d \div g>>

Zero == <<0, 1>>
One == <<1, 1>>
FromInt(i) == <<i, 1>>

\* x + y over the least common denominator; g is the gcd of the denominators
RAddOver(x, y, g) ==
    IF \/ Abs(x[1]) > MaxInt \div (y[2] \div g)
       \/ Abs(y[1]) > MaxInt \div (x[2] \div g)
       \/ x[2] \div g > MaxInt \div y[2]
    THEN Huge
    ELSE Rat(x[1] * (y[2] \div g) + y[1] * (x[2] \div g), (x[2] \div g) * y[2])

RAdd(x, y) ==
    IF x = Huge \/ y = Huge THEN Huge
    ELSE IF x[2] = 0 \/ y[2] = 0 THEN NaN
    ELSE IF x[1] = 0 THEN y
    ELSE IF y[1] = 0 THEN x
    ELSE IF x[2] = y[2]
    THEN IF Abs(x[1]) > MaxInt \/ Abs(y[1]) > MaxInt THEN Huge
         ELSE Rat(x[1] + y[1], x[2])
    ELSE RAddOver(x, y, GCD(x[2], y[2]))

RNeg(x) == IF x[2] = 0 THEN x ELSE <<0 - x[1], x[2]>>

RSub(x, y) == RAdd(x, RNeg(y))

\* (a/c) * (b/d) for a/d and b/c in lowest terms
RMulReduced(a, b, c, d) ==
    IF Abs(a) > MaxInt \div Abs(b) \/ c > MaxInt \div d THEN Huge
    ELSE <<a * b, c * d>>

\* cross-cancelling keeps the products small
RMulBy(x, y, g1, g2) ==
    RMulReduced(x[1] \div g1, y[1] \div g2, x[2] \div g2, y[2] \div g1)

RMul(x, y) ==
    IF x = Huge \/ y = Huge THEN Huge
    ELSE IF x[2] = 0 \/ y[2] = 0 THEN NaN
    ELSE IF x[1] = 0 \/ y[1] = 0 THEN Zero
    ELSE RMulBy(x, y, GCD(Abs(x[1]), y[2]), GCD(Abs(y[1]), x[2]))

\* numpy float division: x / 0 is inf or nan, never an exception
RDiv(x, y) ==
    IF x = Huge \/ y = Huge THEN Huge
    ELSE IF x[2] = 0 \/ y[2] = 0 \/ y[1] = 0 THEN NaN
    ELSE IF y[1] < 0 THEN RMul(x, <<0 - y[2], 0 - y[1]>>)
    ELSE RMul(x, <<y[2], y[1]>>)

RLe(x, y) == x[1] * y[2] <= y[1] * x[2]
RLt(x, y) == x[1] * y[2] < y[1] * x[2]
RAbs(x) == <<Abs(x[1]), x[2]>>

\* floor of a finite number (np.divmod(x, 1)[0])
RFloor(x) == x[1] \div x[2]

\* np.ceil of a finite number
RCeil(x) == 0 - ((0 - x[1]) \div x[2])

\* ------------------------------------------------------------------------
\* Vectors and matrices (sequences of numbers, sequences of rows)
\* ------------------------------------------------------------------------

RECURSIVE SumTo(_, _)
SumTo(s, n) == IF n = 0 THEN Zero ELSE RAdd(SumTo(s, n - 1), s[n])

\* np.sum of a vector
VSum(s) == SumTo(s, Len(s))

\* (a function constructor is evaluated anew at every application; the
\* concatenation with <<>> makes it a tuple of values, evaluated once)
VAdd(a, b) == [k \in 1..Len(a) |-> RAdd(a[k], b[k])] \o <<>>
VScale(a, c) == [k \in 1..Len(a) |-> RMul(a[k], c)] \o <<>>
VDivBy(a, c) == [k \in 1..Len(a) |-> RDiv(a[k], c)] \o <<>>
VDot(a, b) == VSum([k \in 1..Len(a) |-> RMul(a[k], b[k])] \o <<>>)
VFinite(a) == \A k \in 1..Len(a) : IsFinite(a[k])
\* no entry of the vector is beyond the exact arithmetic
Exact(a) == \A k \in 1..Len(a) : a[k] # Huge
Zeros(n) == [k \in 1..n |-> Zero] \o <<>>

\* A.dot(x) for a matrix given by its rows
MatVec(A, x) == [i \in 1..Len(A) |-> VDot(A[i], x)] \o <<>>

\* A.T.dot(A) for A with n columns (an n x n matrix also when A has no rows)
Gram(A, n) ==
    [j \in 1..n |->
        [k \in 1..n |->
            VSum([i \in 1..Len(A) |-> RMul(A[i][j], A[i][k])] \o <<>>)] \o <<>>]
    \o <<>>

\* A.T.dot(b)
TransVec(A, b, n) ==
    [j \in 1..n |-> VSum([i \in 1..Len(A) |-> RMul(A[i][j], b[i])] \o <<>>)]
    \o <<>>

\* ------------------------------------------------------------------------
\* Gauss-Jordan elimination on an augmented matrix whose first n columns
\* are the system.  The result is [M |-> reduced rows, piv |-> the pivot
\* column of each pivot row].
\* ------------------------------------------------------------------------

PivotRows(M, j, r) == {p \in r..Len(M) : M[p][j] # Zero}

Eliminate(M, j, r, p) ==
    LET prow == VDivBy(M[p], M[p][j])
        swapped == [M EXCEPT ![p] = M[r], ![r] = prow]
    IN  [i \in 1..Len(M) |->
            IF i = r \/ swapped[i][j] = Zero THEN swapped[i]
            ELSE VAdd(swapped[i], VScale(prow, RNeg(swapped[i][j])))] \o <<>>

RECURSIVE GaussJordan(_, _, _, _, _)
GaussJordan(M, n, j, r, piv) ==
    IF j > n \/ r > Len(M) THEN [M |-> M, piv |-> piv]
    ELSE LET cand == PivotRows(M, j, r)
         IN  IF cand = {} THEN GaussJordan(M, n, j + 1, r, piv)
             ELSE LET p == CHOOSE q \in cand : \A q2 \in cand : q <= q2
                  IN  GaussJordan(Eliminate(M, j, r, p), n, j + 1, r + 1,
                                  Append(piv, j))

\* One solution of the consistent system G x = c (free unknowns set to 0)
SolveAny(G, c, n) ==
    LET aug == [i \in 1..n |-> Append(G[i], c[i])] \o <<>>
        red == GaussJordan(aug, n, 1, 1, <<>>)
    IN  [j \in 1..n |->
            IF \E i \in 1..Len(red.piv) : red.piv[i] = j
            THEN red.M[CHOOSE i \in 1..Len(red.piv) : red.piv[i] = j][n + 1]
            ELSE Zero] \o <<>>

Rank(G, n) == Len(GaussJordan(G, n, 1, 1, <<>>).piv)

\* ------------------------------------------------------------------------
\* Bounds of the model
\* ------------------------------------------------------------------------

\* grid sizes offered to the constructor: MinSize..MaxSize
MaxSize == 3
\* the star stamps hold the pixels (x, y) with -StampHalf <= x, y <= StampHalf:
\* as wide as the widest odd grid
StampHalf == (MaxSize - 1) \div 2
\* number of Star records the driver creates
MaxStars == 4
\* largest numerator or denominator of a parameter that chisq and fit are
\* followed from
MaxMag == 64

\* Python's None
None == <<>>

\* a float too large or too small for the exact arithmetic, kept as
\* (n/d) * 10^e and only ever stored and compared
Sci(n, d, e) == <<n, d, e>>
IsPlain(x) == Len(x) = 2
VPlain(a) == \A k \in 1..Len(a) : IsPlain(a[k])
\* the parameters the model's arithmetic can follow
Tame(a) ==
    \A k \in 1..Len(a) :
        IsPlain(a[k]) /\ Abs(a[k][1]) <= MaxMag /\ a[k][2] <= MaxMag

\* ------------------------------------------------------------------------
\* The interpolation kernels (galsim.Interpolant): xrange and xval
\* ------------------------------------------------------------------------

\* interp.xrange
XRange(interp) ==
    CASE interp = "Linear" -> One
      [] interp = "Cubic" -> FromInt(2)
      [] interp = "Lanczos(3)" -> FromInt(3)
      [] interp = "Lanczos(7)" -> FromInt(7)

\* interp.xval(x)
XVal(interp, x) ==
    LET a == RAbs(x)
    IN  CASE interp = "Linear" ->
                IF RLt(a, One) THEN RSub(One, a) ELSE Zero
          [] interp = "Cubic" ->
                IF RLt(a, One)
                THEN RAdd(One, RMul(RMul(a, a),
                          RSub(RMul(Rat(3, 2), a), Rat(5, 2))))
                ELSE IF RLt(a, FromInt(2))
                THEN RMul(Rat(-1, 2),
                          RMul(RSub(a, One),
                               RMul(RSub(FromInt(2), a), RSub(FromInt(2), a))))
                ELSE Zero

VARIABLES
    model,   \* the PixelGrid object (self), or NoModel before construction
    arrs,    \* heap of parameter arrays: arrs[id] is the array's content
    stars,   \* heap of Star records: stars[id] = [data, fit]
    last     \* the last call made: its arguments, outcome and inputs' old values

vars == <<model, arrs, stars, last>>

\* ------------------------------------------------------------------------
\* PixelGrid.__init__
\* ------------------------------------------------------------------------

NoModel == [built |-> FALSE]

InitMethods == {"hsm", "zero", "delta", "bogus"}
\* init=None, default_init=None
NoInit == "None"

\* the attributes __init__ sets
NewModel(scale, size, interp, init, fit_flux) ==
    [built |-> TRUE,
     scale |-> scale,
     size |-> size,
     pixel_area |-> scale * scale,
     interp |-> interp,
     init |-> init,
     fit_flux |-> fit_flux,
     maxuv |-> Rat((size + 1) * scale, 2),
     origin |-> size \div 2,
     nparams |-> size * size,
     num |-> None,
     basis |-> [set |-> FALSE]]

NoCall == [op |-> "none", err |-> "ok"]

\* an exception propagates to the caller and ends the run
Running == last.err = "ok"

Init ==
    /\ model = NoModel
    /\ arrs = <<>>
    /\ stars = <<>>
    /\ last = NoCall

\* Construct rejecting negative sizes only
ConstructZeroAllowed(scale, size, interp, init, fit_flux) ==
    /\ Running
    /\ ~model.built
    /\ IF size < 0
       THEN /\ last' = [op |-> "init", size |-> size, scale |-> scale,
                        interp |-> interp, init |-> init,
                        fit_flux |-> fit_flux, err |-> "ValueError"]
            /\ UNCHANGED model
       ELSE /\ model' = NewModel(scale, size, interp, init, fit_flux)
            /\ last' = [op |-> "init", size |-> size, scale |-> scale,
                        interp |-> interp, init |-> init,
                        fit_flux |-> fit_flux, err |-> "ok"]
    /\ UNCHANGED <<arrs, stars>>

Construct(scale, size, interp, init, fit_flux) ==
    /\ Running
    /\ ~model.built
    /\ IF size <= 0
       THEN /\ last' = [op |-> "init", size |-> size, scale |-> scale,
                        interp |-> interp, init |-> init,
                        fit_flux |-> fit_flux, err |-> "ValueError"]
            /\ UNCHANGED model
       ELSE /\ model' = NewModel(scale, size, interp, init, fit_flux)
            /\ last' = [op |-> "init", size |-> size, scale |-> scale,
                        interp |-> interp, init |-> init,
                        fit_flux |-> fit_flux, err |-> "ok"]
    /\ UNCHANGED <<arrs, stars>>

\* ------------------------------------------------------------------------
\* Star records (piff/star.py: Star, StarData, StarFit)
\* ------------------------------------------------------------------------

\* StarFit: params is the id of the parameter array in arrs, 0 for None.
\* newParams discards A, b and dof, so A = <<>> means None exactly when
\* dof = None.
NewStarFit(params, flux, center) ==
    [params |-> params, params_var |-> None, flux |-> flux, center |-> center,
     chisq |-> None, dof |-> None, A |-> <<>>, b |-> <<>>]

\* The stamps the driver hands over.  A stamp is a (2*StampHalf+1)-square of
\* pixels of unit spacing at u = x, v = y; `kind` ("blank", "point", "ramp",
\* "dark", "gauss" or "gaussmask") fixes its data and weights.

StampSide == 2 * StampHalf + 1
NPix == StampSide * StampSide
PixX(i) == ((i - 1) % StampSide) - StampHalf
PixY(i) == ((i - 1) \div StampSide) - StampHalf

\* the noise-free image of a unit-flux Gaussian of sigma^2 = 1 / (2 ln 2)
\* sampled on the 3 x 3 cells around the centre
GaussPix(x, y) ==
    IF x * x + y * y = 0 THEN Rat(1, 4)
    ELSE IF x * x + y * y = 1 THEN Rat(1, 8)
    ELSE IF x * x + y * y = 2 THEN Rat(1, 16)
    ELSE Zero

PixData(kind, i) ==
    CASE kind = "blank" -> Zero
      [] kind = "point" -> IF PixX(i) = 0 /\ PixY(i) = 0 THEN One ELSE Zero
      [] kind \in {"gauss", "gaussmask"} -> GaussPix(PixX(i), PixY(i))
      [] OTHER -> FromInt(PixX(i) + 2 * PixY(i) + 3 * StampHalf)

PixWeight(kind, i) ==
    CASE kind = "dark" -> Zero
      [] kind = "gaussmask" ->
            IF PixX(i) = -1 /\ PixY(i) = -1 THEN Zero ELSE One
      [] kind = "ramp" -> IF i = 1 THEN Zero ELSE IF i = 2 THEN FromInt(4) ELSE One
      [] OTHER -> One

\* star.data.getDataVector(): fresh arrays data, weight, u, v
getDataVector(data) ==
    [i \in 1..NPix |->
        [data |-> PixData(data.kind, i), weight |-> PixWeight(data.kind, i),
         u |-> FromInt(PixX(i)), v |-> FromInt(PixY(i))]] \o <<>>

\* StarFit.get_params(num) with num = None: the stored array itself
get_params(fit) == fit.params

\* StarFit.withNew(**kwargs): a new StarFit sharing params, with the
\* linearization replaced
withNew(fit, chisq, dof, A, b) ==
    [fit EXCEPT !.chisq = chisq, !.dof = dof, !.A = A, !.b = b]

\* StarFit.newParams: a new StarFit holding a fresh copy of params (its id
\* is newid); flux and center are kept, the linearization about the old
\* parameters is dropped, params_var and chisq are replaced when given.
newParams(fit, newid, params_var, chisq) ==
    [fit EXCEPT !.params = newid,
                !.params_var = IF params_var = None THEN @ ELSE params_var,
                !.chisq = IF chisq = None THEN @ ELSE chisq,
                !.dof = None, !.A = <<>>, !.b = <<>>]

\* the size check newParams makes (see the comment in normalize)
newParamsComplains(fit, heap, n) ==
    fit.params # 0 /\ Len(heap[fit.params]) # n

\* the driver creates a Star from a stamp: no parameters yet
NewStar(kind, center, flux) ==
    /\ Running
    /\ model.built
    /\ stars = <<>>
    /\ stars' = Append(stars,
          [data |-> [kind |-> kind], fit |-> NewStarFit(0, flux, center)])
    /\ last' = [op |-> "star", res |-> Len(stars) + 1, err |-> "ok"]
    /\ UNCHANGED <<model, arrs>>

\* ------------------------------------------------------------------------
\* PixelGrid.initialize
\* ------------------------------------------------------------------------

RECURSIVE Pow(_, _)
Pow(x, n) == IF n = 0 THEN 1 ELSE x * Pow(x, n - 1)

GridRow(m, k) == (k - 1) \div m.size
GridCol(m, k) == (k - 1) % m.size

\* gauss = exp(-rsq / (2 sigma^2)) for the star's hsm sigma.  The stamps
\* have sigma = scale / sqrt(2 ln 2), for which gauss = (1/2)^(rsq/scale^2).
GaussParams(m) ==
    [k \in 1..(m.size * m.size) |->
        Rat(1, Pow(2, (GridRow(m, k) - m.origin) * (GridRow(m, k) - m.origin)
                    + (GridCol(m, k) - m.origin) * (GridCol(m, k) - m.origin)))]
    \o <<>>

\* ResolvedInit with the caller's default_init taking precedence over the
\* configured init
ResolvedInitDefaultFirst(m, default_init) ==
    LET init == IF default_init # NoInit THEN default_init ELSE m.init
    IN  IF init = NoInit THEN "hsm" ELSE init

ResolvedInit(m, default_init) ==
    LET init == IF m.init # NoInit THEN m.init ELSE default_init
    IN  IF init = NoInit THEN "hsm" ELSE init

\* InitParams with the delta placed at the cell ((size-1)//2, (size-1)//2)
InitParamsLowCentre(m, init) ==
    CASE init = "hsm" -> VDivBy(GaussParams(m), VSum(GaussParams(m)))
      [] init = "zero" ->
            LET g == VDivBy(GaussParams(m), VSum(GaussParams(m)))
            IN  [k \in 1..Len(g) |-> Sci(g[k][1], g[k][2], -10)] \o <<>>
      [] init = "delta" ->
            [k \in 1..(m.size * m.size) |->
                IF k - 1 = ((m.size - 1) \div 2) * (m.size + 1)
                THEN One ELSE Zero]
            \o <<>>

\* the parameter vector initialize builds, for a valid method
InitParams(m, init) ==
    CASE init = "hsm" -> VDivBy(GaussParams(m), VSum(GaussParams(m)))
      [] init = "zero" ->
            LET g == VDivBy(GaussParams(m), VSum(GaussParams(m)))
            IN  [k \in 1..Len(g) |-> Sci(g[k][1], g[k][2], -10)] \o <<>>
      [] init = "delta" ->
            [k \in 1..(m.size * m.size) |->
                IF k - 1 = m.origin * m.size + m.origin THEN One ELSE Zero]
            \o <<>>

Snapshot == [stars |-> stars, arrs |-> arrs, model |-> model]

\* An array no StarFit refers to any more is freed: the heap keeps the
\* referenced arrays, in their order, and the StarFits follow them.
Referenced(sts) == {sts[i].fit.params : i \in 1..Len(sts)} \ {0}
NewId(sts, pid) ==
    IF pid = 0 THEN 0 ELSE Cardinality({q \in Referenced(sts) : q <= pid})
RECURSIVE LiveUpTo(_, _, _)
LiveUpTo(sts, heap, p) ==
    IF p = 0 THEN <<>>
    ELSE IF p \in Referenced(sts)
         THEN Append(LiveUpTo(sts, heap, p - 1), heap[p])
         ELSE LiveUpTo(sts, heap, p - 1)
Compact(sts, heap) ==
    [stars |-> [i \in 1..Len(sts) |->
                    [sts[i] EXCEPT !.fit.params = NewId(sts, @)]] \o <<>>,
     arrs |-> LiveUpTo(sts, heap, Len(heap))]

\* InitializeReturn handing back the input star itself with its fit replaced
InitializeReturnInPlace(sts, sid, newid) ==
    Append([sts EXCEPT ![sid].fit = newParams(@, newid, None, None)],
           [data |-> sts[sid].data,
            fit |-> newParams(sts[sid].fit, newid, None, None)])

\* fit = star.fit.newParams(params=params, num=self._num)
\* return Star(star.data, fit): a new star next to the input star
InitializeReturn(sts, sid, newid) ==
    Append(sts, [data |-> sts[sid].data,
                 fit |-> newParams(sts[sid].fit, newid, None, None)])

Initialize(sid, default_init) ==
    LET init == ResolvedInit(model, default_init)
        star == stars[sid]
    IN  /\ Running
        /\ model.built
        /\ sid \in 1..Len(stars)
        /\ sid = 1 \/ star.fit.params = 0
        /\ Len(stars) < MaxStars
        /\ IF init \notin {"hsm", "zero", "delta"}
           THEN /\ last' = [op |-> "initialize", arg |-> sid, res |-> 0,
                            init |-> init, default_init |-> default_init,
                            err |-> "ValueError", pre |-> Snapshot]
                /\ UNCHANGED <<arrs, stars>>
           ELSE IF newParamsComplains(star.fit, arrs, model.nparams)
           THEN /\ last' = [op |-> "initialize", arg |-> sid, res |-> 0,
                            init |-> init, default_init |-> default_init,
                            err |-> "ValueError", pre |-> Snapshot]
                /\ UNCHANGED <<arrs, stars>>
           ELSE /\ arrs' = Append(arrs, InitParams(model, init))
                /\ stars' = InitializeReturn(stars, sid, Len(arrs) + 1)
                /\ last' = [op |-> "initialize", arg |-> sid,
                            res |-> Len(stars) + 1, init |-> init,
                            default_init |-> default_init,
                            err |-> "ok", pre |-> Snapshot]
        /\ UNCHANGED model

\* ------------------------------------------------------------------------
\* PixelGrid.getProfile and the rendering of a profile (galsim)
\* ------------------------------------------------------------------------

\* basis_shifts = np.meshgrid(arange(-origin, size-origin), ...): grid node
\* k (row-major) sits at du = col - origin, dv = row - origin
BasisDu(m, k) == GridCol(m, k) - m.origin
BasisDv(m, k) == GridRow(m, k) - m.origin

\* the grid values of the InterpolatedImage: flux = 1 rescales the image
\* to unit sum, flux = None keeps the image's own flux
getProfile(m, params) ==
    IF m.fit_flux THEN params ELSE VScale(params, RDiv(One, VSum(params)))

\* flux_scaling = star.data.pixel_area / self.pixel_area (unit stamp pixels)
FluxScaling(m) == Rat(1, m.pixel_area)

\* pixel position relative to the star's centre, in grid units
GridU(m, fit, pix) == RDiv(RSub(pix.u, fit.center[1]), FromInt(m.scale))
GridV(m, fit, pix) == RDiv(RSub(pix.v, fit.center[2]), FromInt(m.scale))

\* the unit basis kernel of node k drawn at one pixel (no_pixel drawing)
BasisAt(m, fit, pix, k) ==
    RMul(FluxScaling(m),
         RMul(XVal(m.interp, RSub(FromInt(BasisDu(m, k)), GridU(m, fit, pix))),
              XVal(m.interp, RSub(FromInt(BasisDv(m, k)), GridV(m, fit, pix)))))

\* prof._drawReal(image): the profile drawn at one pixel
DrawAt(m, fit, prof, pix) ==
    VSum([k \in 1..Len(prof) |->
            IF prof[k] = Zero THEN Zero
            ELSE RMul(prof[k], BasisAt(m, fit, pix, k))] \o <<>>)

\* ------------------------------------------------------------------------
\* PixelGrid.chisq
\* ------------------------------------------------------------------------

Max(a, b) == IF a >= b THEN a ELSE b
Min(a, b) == IF a <= b THEN a ELSE b

\* the indices a Python slice lo:hi selects from a sequence of length n
PySlice(lo, hi, n) ==
    LET l == IF lo < 0 THEN Max(lo + n, 0) ELSE Min(lo, n)
        h == IF hi < 0 THEN Max(hi + n, 0) ELSE Min(hi, n)
    IN  [t \in 1..Max(0, h - l) |-> l + t - 1] \o <<>>

\* InMask without the weight test: pixels of zero weight are kept
InMaskAnyWeight(m, fit, pix) ==
    /\ RLe(RAbs(RSub(pix.u, fit.center[1])), m.maxuv)
    /\ RLe(RAbs(RSub(pix.v, fit.center[2])), m.maxuv)

\* InMask with strict bounds: pixels at distance maxuv are dropped
InMaskStrict(m, fit, pix) ==
    /\ RLt(RAbs(RSub(pix.u, fit.center[1])), m.maxuv)
    /\ RLt(RAbs(RSub(pix.v, fit.center[2])), m.maxuv)
    /\ pix.weight # Zero

\* mask = (|u| <= maxuv) & (|v| <= maxuv) & (weight != 0), u and v already
\* relative to the star's centre
InMask(m, fit, pix) ==
    /\ RLe(RAbs(RSub(pix.u, fit.center[1])), m.maxuv)
    /\ RLe(RAbs(RSub(pix.v, fit.center[2])), m.maxuv)
    /\ pix.weight # Zero

RECURSIVE KeptUpTo(_, _, _, _)
KeptUpTo(m, fit, dv, n) ==
    IF n = 0 THEN <<>>
    ELSE IF InMask(m, fit, dv[n])
         THEN Append(KeptUpTo(m, fit, dv, n - 1), n)
         ELSE KeptUpTo(m, fit, dv, n - 1)

\* the indices of the retained pixels, in order
Kept(m, fit, dv) == KeptUpTo(m, fit, dv, Len(dv))

\* xr = int(np.ceil(self.interp.xrange))
Xr(m) == RCeil(XRange(m.interp))

\* AxisSlice without the clip at the low edge of the grid
AxisSliceLowUnclipped(m, t) ==
    LET xr == Xr(m)
        i1 == t - xr + m.origin + 1
        i2 == t + xr + m.origin + 1
        p2 == IF i2 > m.size THEN 2 * xr - (i2 - m.size) ELSE 2 * xr
        i2c == IF i2 > m.size THEN m.size ELSE i2
    IN  [i1 |-> i1, i2 |-> i2c, p1 |-> 0, p2 |-> p2]

\* AxisSlice clipping the node slice only: the weights are taken from the
\* start of the window, so that they move to other nodes when the window is
\* cut at the low edge
AxisSliceUnshifted(m, t) ==
    LET xr == Xr(m)
        i1 == t - xr + m.origin + 1
        i2 == t + xr + m.origin + 1
        i1c == IF i1 < 0 THEN 0 ELSE i1
        i2c == IF i2 > m.size THEN m.size ELSE i2
    IN  [i1 |-> i1c, i2 |-> i2c, p1 |-> 0, p2 |-> i2c - i1c]

\* the slice bookkeeping of one axis: t is floor(u) (or floor(v))
AxisSlice(m, t) ==
    LET xr == Xr(m)
        i1 == t - xr + m.origin + 1
        i2 == t + xr + m.origin + 1
        p1 == IF i1 < 0 THEN 0 - i1 ELSE 0
        i1c == IF i1 < 0 THEN 0 ELSE i1
        p2 == IF i2 > m.size THEN 2 * xr - (i2 - m.size) ELSE 2 * xr
        i2c == IF i2 > m.size THEN m.size ELSE i2
    IN  [i1 |-> i1c, i2 |-> i2c, p1 |-> p1, p2 |-> p2]

\* AxisWeights with the offsets arange(-xr, xr): one cell off
AxisWeightsShifted(m, g) ==
    LET frac == RSub(g, FromInt(RFloor(g)))
    IN  [q \in 1..(2 * Xr(m)) |->
            XVal(m.interp, RAdd(RNeg(frac), FromInt(q - Xr(m) - 1)))] \o <<>>

\* uwt (or vwt) of one pixel: xval at -frac + arange(-xr+1, xr+1)
AxisWeights(m, g) ==
    LET frac == RSub(g, FromInt(RFloor(g)))
    IN  [q \in 1..(2 * Xr(m)) |->
            XVal(m.interp, RAdd(RNeg(frac), FromInt(q - Xr(m))))] \o <<>>

\* position of x in the sequence s, 0 when absent
IndexOf(s, x) ==
    IF \E t \in 1..Len(s) : s[t] = x
    THEN CHOOSE t \in 1..Len(s) : s[t] = x
    ELSE 0

\* FastRowCells with the two axes of col_index exchanged: the v slice picks
\* the columns and the u slice the rows
FastRowCellsTransposed(m, su, sv, uwt, vwt, rows, cols, ps, qs) ==
    [ok |-> Len(rows) * Len(cols) = Len(ps) * Len(qs) \/ Len(ps) * Len(qs) = 1,
     su |-> su, sv |-> sv,
     row |-> [k \in 1..m.nparams |->
                IF \/ IndexOf(rows, GridCol(m, k)) = 0
                   \/ IndexOf(cols, GridRow(m, k)) = 0
                   \/ Len(ps) * Len(qs) = 0
                THEN Zero
                ELSE IF Len(ps) * Len(qs) = 1
                THEN RMul(uwt[qs[1] + 1], vwt[ps[1] + 1])
                ELSE LET f == (IndexOf(rows, GridCol(m, k)) - 1) * Len(cols)
                                + (IndexOf(cols, GridRow(m, k)) - 1)
                     IN  RMul(uwt[qs[(f % Len(qs)) + 1] + 1],
                              vwt[ps[(f \div Len(qs)) + 1] + 1])]
             \o <<>>]

\* A[i, cols.ravel()] = uvwt[i, p1:p2, q1:q2].ravel(): the values are
\* written in order over the selected cells; a single value is broadcast,
\* another number of values than cells is refused
FastRowCells(m, su, sv, uwt, vwt, rows, cols, ps, qs) ==
    [ok |-> Len(rows) * Len(cols) = Len(ps) * Len(qs) \/ Len(ps) * Len(qs) = 1,
     su |-> su, sv |-> sv,
     row |-> [k \in 1..m.nparams |->
                IF \/ IndexOf(rows, GridRow(m, k)) = 0
                   \/ IndexOf(cols, GridCol(m, k)) = 0
                   \/ Len(ps) * Len(qs) = 0
                THEN Zero
                ELSE IF Len(ps) * Len(qs) = 1
                THEN RMul(uwt[qs[1] + 1], vwt[ps[1] + 1])
                ELSE LET f == (IndexOf(rows, GridRow(m, k)) - 1) * Len(cols)
                                + (IndexOf(cols, GridCol(m, k)) - 1)
                     IN  RMul(uwt[qs[(f % Len(qs)) + 1] + 1],
                              vwt[ps[(f \div Len(qs)) + 1] + 1])]
             \o <<>>]

\* cols = col_index[i1:i2, j1:j2] and uvwt[i, p1:p2, q1:q2] of one pixel
FastRowSlices(m, su, sv, uwt, vwt) ==
    FastRowCells(m, su, sv, uwt, vwt,
                 PySlice(sv.i1, sv.i2, m.size), PySlice(su.i1, su.i2, m.size),
                 PySlice(sv.p1, sv.p2, 2 * Xr(m)), PySlice(su.p1, su.p2, 2 * Xr(m)))

\* the row of A the fast separable path writes for one retained pixel
FastRow(m, fit, pix) ==
    FastRowSlices(m,
                  AxisSlice(m, RFloor(GridU(m, fit, pix))),
                  AxisSlice(m, RFloor(GridV(m, fit, pix))),
                  VScale(AxisWeights(m, GridU(m, fit, pix)), FluxScaling(m)),
                  AxisWeights(m, GridV(m, fit, pix)))

\* the row of A the per-basis path writes for one retained pixel: column k
\* is the unit basis kernel of node k drawn at that pixel
SlowRow(m, fit, pix) ==
    [k \in 1..m.nparams |-> BasisAt(m, fit, pix, k)] \o <<>>

\* np.sqrt of a weight (the stamps' weights are perfect squares)
RSqrt(w) ==
    Rat(CHOOSE r \in 0..w[1] : r * r = w[1], CHOOSE r \in 0..w[2] : r * r = w[2])

\* what chisq raises before it computes anything, "ok" when it goes on:
\* getProfile reshapes params to (size, size)
ChisqError(m, fit, heap) ==
    IF fit.params = 0 THEN "AttributeError"
    ELSE IF Len(heap[fit.params]) # m.nparams THEN "ValueError"
    ELSE "ok"

\* chisq = np.sum(b**2); dof = np.count_nonzero(weight) of the masked
\* weights, counted here on their square roots
ChisqSums(kept, fast, A, b, dof) ==
    [ok |-> \A i \in 1..Len(kept) : fast[i].ok,
     kept |-> kept,
     slices |-> [i \in 1..Len(kept) |->
                    [su |-> fast[i].su, sv |-> fast[i].sv]] \o <<>>,
     A |-> A, b |-> b,
     chisq |-> VDot(b, b),
     dof |-> FromInt(dof)]

\* A *= flux; A and b scaled by sqrt(weight); resid = data - model image
ChisqWeighted(kept, fast, sw, resid, flux) ==
    ChisqSums(kept, fast,
              [i \in 1..Len(kept) |->
                  VScale(VScale(fast[i].row, flux), sw[i])] \o <<>>,
              [i \in 1..Len(kept) |-> RMul(resid[i], sw[i])] \o <<>>,
              Cardinality({i \in 1..Len(kept) : sw[i] # Zero}))

\* the rows of the retained pixels
ChisqRows(m, fit, dv, prof, kept) ==
    ChisqWeighted(kept,
        [i \in 1..Len(kept) |-> FastRow(m, fit, dv[kept[i]])] \o <<>>,
        [i \in 1..Len(kept) |-> RSqrt(dv[kept[i]].weight)] \o <<>>,
        [i \in 1..Len(kept) |->
            RSub(dv[kept[i]].data,
                 RMul(DrawAt(m, fit, prof, dv[kept[i]]), fit.flux))] \o <<>>,
        fit.flux)

ChisqMasked(m, fit, dv, prof) == ChisqRows(m, fit, dv, prof, Kept(m, fit, dv))

\* (A, b, chisq, dof) as chisq computes them, without a convert_func
ChisqCalc(m, fit, data, params) ==
    ChisqMasked(m, fit, getDataVector(data), getProfile(m, params))

\* self._getBasisProfile(): builds the cache on the first call
BasisOf(m) ==
    [set |-> TRUE, profile |-> m.interp,
     shifts |-> [k \in 1..m.nparams |-> <<BasisDu(m, k), BasisDv(m, k)>>] \o <<>>]

getBasisProfile(m) == IF ~m.basis.set THEN [m EXCEPT !.basis = BasisOf(m)] ELSE m

DrawMethods == {"None", "no_pixel", "auto"}

\* the linearization is within the exact arithmetic
ChisqExact(c) ==
    /\ c.chisq # Huge
    /\ Exact(c.b)
    /\ \A i \in 1..Len(c.A) : Exact(c.A[i])

\* ChisqOutcome with the draw_method asserted after the star's parameters
\* were fetched
ChisqOutcomeLateCheck(m, star, heap, draw_method, c) ==
    IF ChisqError(m, star.fit, heap) # "ok" THEN ChisqError(m, star.fit, heap)
    ELSE IF draw_method \notin {"None", "no_pixel"} THEN "AssertionError"
    ELSE IF ~Tame(heap[star.fit.params]) THEN "skip"
    ELSE IF ~ChisqExact(c) THEN "skip"
    ELSE IF ~c.ok THEN "ValueError"
    ELSE "ok"

\* what a chisq call ends with: the error it raises, or "ok" ("skip": the
\* parameters are outside the exact arithmetic of the model); c is
\* ChisqCalc of the star
ChisqOutcome(m, star, heap, draw_method, c) ==
    IF draw_method \notin {"None", "no_pixel"} THEN "AssertionError"
    ELSE IF ChisqError(m, star.fit, heap) # "ok" THEN ChisqError(m, star.fit, heap)
    ELSE IF ~Tame(heap[star.fit.params]) THEN "skip"
    ELSE IF ~ChisqExact(c) THEN "skip"
    ELSE IF ~c.ok THEN "ValueError"
    ELSE "ok"

\* ChisqFit building the StarFit anew and forgetting the flux
ChisqFitDefaultFlux(fit, c) ==
    withNew([fit EXCEPT !.flux = One], c.chisq, c.dof, c.A, c.b)

\* the StarFit of the Star chisq returns
ChisqFit(fit, c) == withNew(fit, c.chisq, c.dof, c.A, c.b)

\* the call returns a new Star, or raises
ChisqReturn(sid, star, c, draw_method, out) ==
    /\ out # "skip"
    /\ IF out # "ok"
       THEN /\ last' = [op |-> "chisq", arg |-> sid, res |-> 0,
                        draw_method |-> draw_method,
                        err |-> out, pre |-> Snapshot]
            /\ UNCHANGED <<model, arrs, stars>>
       ELSE /\ model' = getBasisProfile(model)
            /\ stars' = Append(stars,
                  [data |-> star.data, fit |-> ChisqFit(star.fit, c)])
            /\ last' = [op |-> "chisq", arg |-> sid, res |-> Len(stars) + 1,
                        draw_method |-> draw_method,
                        err |-> "ok", pre |-> Snapshot]
            /\ UNCHANGED arrs

ChisqCall(sid, star, c) ==
    \E draw_method \in DrawMethods :
        ChisqReturn(sid, star, c, draw_method,
                    ChisqOutcome(model, star, arrs, draw_method, c))

Chisq(sid) ==
    /\ Running
    /\ model.built
    /\ sid \in 1..Len(stars)
    /\ Len(stars) < MaxStars
    /\ ChisqCall(sid, stars[sid],
                 ChisqCalc(model, stars[sid].fit, stars[sid].data,
                           arrs[get_params(stars[sid].fit)]))

\* ------------------------------------------------------------------------
\* PixelGrid.fit
\* ------------------------------------------------------------------------

IdentityRow(i, n) == [k \in 1..n |-> IF k = i THEN One ELSE Zero] \o <<>>

\* A.T.dot(A) reduced together with A.T.dot(b) and the identity:
\* [G | c | I] -> [R | x | G^-1] when G has full rank
NormalEq(A, b, n) ==
    LET G == Gram(A, n)
        c == TransVec(A, b, n)
        aug == [i \in 1..n |-> Append(G[i], c[i]) \o IdentityRow(i, n)] \o <<>>
    IN  [G |-> G, c |-> c, red |-> GaussJordan(aug, n, 1, 1, <<>>)]

\* the null vector of the reduced system that has 1 at the free column f
NullVec(red, n, f) ==
    [j \in 1..n |->
        IF j = f THEN One
        ELSE IF \E i \in 1..Len(red.piv) : red.piv[i] = j
        THEN RNeg(red.M[CHOOSE i \in 1..Len(red.piv) : red.piv[i] = j][f])
        ELSE Zero] \o <<>>

RECURSIVE FreeColsUpTo(_, _)
FreeColsUpTo(piv, j) ==
    IF j = 0 THEN <<>>
    ELSE IF \E i \in 1..Len(piv) : piv[i] = j THEN FreeColsUpTo(piv, j - 1)
    ELSE Append(FreeColsUpTo(piv, j - 1), j)

RECURSIVE LinComb(_, _, _)
LinComb(vecs, y, k) ==
    IF k = 0 THEN Zeros(Len(vecs[1]))
    ELSE VAdd(LinComb(vecs, y, k - 1), VScale(vecs[k], y[k]))

\* x0 minus its projection on the null space spanned by the rows of NT
Project(x0, NT, k) ==
    IF k = 0 THEN x0
    ELSE VAdd(x0, VScale(LinComb(NT,
                SolveAny([a \in 1..k |->
                            [c \in 1..k |-> VDot(NT[a], NT[c])] \o <<>>] \o <<>>,
                         MatVec(NT, x0), k), k), FromInt(-1)))

NullSpace(red, n, free) ==
    [a \in 1..Len(free) |-> NullVec(red, n, free[a])] \o <<>>

\* the solution of least norm among the solutions x0 + null space
MinNorm(red, n) ==
    Project([j \in 1..n |->
                IF \E i \in 1..Len(red.piv) : red.piv[i] = j
                THEN red.M[CHOOSE i \in 1..Len(red.piv) : red.piv[i] = j][n + 1]
                ELSE Zero] \o <<>>,
            NullSpace(red, n, FreeColsUpTo(red.piv, n)),
            Len(FreeColsUpTo(red.piv, n)))

\* lstsq solving A dp = -b: the step with its sign reversed
lstsqNegated(A, b, n) ==
    IF Len(A) = 0 THEN Zeros(n)
    ELSE IF ~VFinite(b) THEN [k \in 1..n |-> NaN] \o <<>>
    ELSE VScale(MinNorm(NormalEq(A, b, n).red, n), FromInt(-1))

\* lstsq returning half of the least-squares step
lstsqDamped(A, b, n) ==
    IF Len(A) = 0 THEN Zeros(n)
    ELSE IF ~VFinite(b) THEN [k \in 1..n |-> NaN] \o <<>>
    ELSE VScale(MinNorm(NormalEq(A, b, n).red, n), Rat(1, 2))

\* scipy.linalg.lstsq(A, b, cond=1.e-6, lapack_driver='gelsy')[0]: the
\* least-squares solution of minimum norm (zeros when A has no rows);
\* garbage from a non-finite b, which check_finite=False lets through
lstsq(A, b, n) ==
    IF Len(A) = 0 THEN Zeros(n)
    ELSE IF ~VFinite(b) THEN [k \in 1..n |-> NaN] \o <<>>
    ELSE MinNorm(NormalEq(A, b, n).red, n)

\* scipy.linalg.inv(A.T.dot(A)): raises LinAlgError on a singular matrix,
\* else the inverse, of which fit takes the diagonal
Inverse(A, n) ==
    LET red == NormalEq(A, Zeros(Len(A)), n).red
    IN  [raises |-> Len(red.piv) < n,
         exact |-> \A i \in 1..n : Exact(red.M[i]),
         diag |-> IF Len(red.piv) < n THEN <<>>
                  ELSE [k \in 1..n |-> red.M[k][n + 1 + k]] \o <<>>]

\* ParamsVar with another sentinel
ParamsVarOtherSentinel(inv, n) ==
    IF inv.raises THEN [k \in 1..n |-> Sci(1, 1, 10)] \o <<>>
    ELSE inv.diag

\* params_var: np.diagonal of the inverse, or ones * 1.e100 on LinAlgError
ParamsVar(inv, n) ==
    IF inv.raises THEN [k \in 1..n |-> Sci(1, 1, 100)] \o <<>>
    ELSE inv.diag

\* NewChisq with the sign of the cross term flipped
NewChisqPlus(chisq, A, b, dparam) ==
    LET Adp == MatVec(A, dparam)
    IN  RAdd(RAdd(chisq, VDot(Adp, Adp)), RMul(FromInt(2), VDot(Adp, b)))

\* new_chisq = chisq + Adp.dot(Adp) - 2 * Adp.dot(b)
NewChisq(chisq, A, b, dparam) ==
    LET Adp == MatVec(A, dparam)
    IN  RSub(RAdd(chisq, VDot(Adp, Adp)), RMul(FromInt(2), VDot(Adp, b)))

\* ------------------------------------------------------------------------
\* PixelGrid.normalize, as a function of the heaps: the result is the new
\* heaps and the error raised ("ok" when none)
\* ------------------------------------------------------------------------

CellIndex(m, row, col) == row * m.size + col + 1

\* mask of the cells the legacy vector fills: all but the reserved ones
LegacyReserved(m, short) ==
    {CellIndex(m, m.origin, m.origin)} \cup
    (IF short = 3
     THEN {CellIndex(m, m.origin + 1, m.origin),
           CellIndex(m, m.origin, m.origin + 1)}
     ELSE {})

RECURSIVE CountFree(_, _, _)
CountFree(m, reserved, k) ==
    IF k = 0 THEN 0
    ELSE CountFree(m, reserved, k - 1) + (IF k \in reserved THEN 0 ELSE 1)

\* temp[mask] = params
LegacyScatter(m, params, short) ==
    LET reserved == LegacyReserved(m, short)
    IN  [k \in 1..m.nparams |->
            IF k \in reserved THEN Zero
            ELSE params[CountFree(m, reserved, k)]] \o <<>>

\* np.sum(v * temp) and np.sum(u * temp): v is the row offset, u the column
MomentV(m, temp) ==
    VSum([k \in 1..m.nparams |-> RMul(FromInt(BasisDv(m, k)), temp[k])] \o <<>>)
MomentU(m, temp) ==
    VSum([k \in 1..m.nparams |-> RMul(FromInt(BasisDu(m, k)), temp[k])] \o <<>>)

\* temp[origin+1, origin] = -np.sum(v*temp), when three cells are reserved
LegacyFirstV(m, temp, short) ==
    IF short = 3
    THEN [temp EXCEPT ![CellIndex(m, m.origin + 1, m.origin)] =
                            RNeg(MomentV(m, temp))]
    ELSE temp

\* temp[origin, origin+1] = -np.sum(u*temp), when three cells are reserved
LegacyFirstU(m, temp, short) ==
    IF short = 3
    THEN [temp EXCEPT ![CellIndex(m, m.origin, m.origin + 1)] =
                            RNeg(MomentU(m, temp))]
    ELSE temp

\* temp[origin, origin] = 1./self.pixel_area - np.sum(temp)
LegacyCentre(m, temp) ==
    [temp EXCEPT ![CellIndex(m, m.origin, m.origin)] =
                        RSub(Rat(1, m.pixel_area), VSum(temp))]

\* LegacyRemap fixing the central cell before the two neighbour cells
LegacyRemapCentreFirst(m, params, short) ==
    LegacyFirstU(m,
        LegacyFirstV(m, LegacyCentre(m, LegacyScatter(m, params, short)), short),
        short)

\* the backward-compatibility remap of a short vector
LegacyRemap(m, params, short) ==
    LegacyCentre(m,
        LegacyFirstU(m,
            LegacyFirstV(m, LegacyScatter(m, params, short), short), short))

\* LegacyError with the reserved cells indexed before the shortfall is
\* asserted
LegacyErrorIndexFirst(m, nparams1) ==
    IF m.nparams - nparams1 # 1 /\ m.origin + 1 >= m.size THEN "IndexError"
    ELSE IF m.nparams - nparams1 \notin {1, 3} THEN "AssertionError"
    ELSE "ok"

\* the error the legacy branch raises, "ok" when it completes
LegacyError(m, nparams1) ==
    IF m.nparams - nparams1 \notin {1, 3} THEN "AssertionError"
    ELSE IF m.nparams - nparams1 = 3 /\ m.origin + 1 >= m.size THEN "IndexError"
    ELSE "ok"

\* NormalizeFlux rescaling to unit sum whatever fit_flux says
NormalizeFluxAlways(m, sid, sts, heap, pid, legacy, fit1, normed) ==
    [err |-> "ok",
     stars |-> [sts EXCEPT ![sid].fit =
                   newParams(fit1, Len(heap) + 1, None, None)],
     arrs |-> Append(IF legacy THEN heap
                     ELSE [heap EXCEPT ![pid] = normed],
                     normed)]

\* if not self._fit_flux: params /= np.sum(params);
\*                        star.fit = star.fit.newParams(params)
\* `params` is the star's own array (in place) unless the remap made a new
\* one; fit1 is star.fit after the remap's star.fit.params = None
NormalizeFlux(m, sid, sts, heap, pid, legacy, fit1, normed) ==
    IF m.fit_flux
    THEN [err |-> "ok", stars |-> [sts EXCEPT ![sid].fit = fit1], arrs |-> heap]
    ELSE [err |-> "ok",
          stars |-> [sts EXCEPT ![sid].fit =
                        newParams(fit1, Len(heap) + 1, None, None)],
          arrs |-> Append(IF legacy THEN heap
                          ELSE [heap EXCEPT ![pid] = normed],
                          normed)]

NormalizeParams(m, sid, sts, heap, pid, legacy, params) ==
    NormalizeFlux(m, sid, sts, heap, pid, legacy,
                  IF legacy THEN [sts[sid].fit EXCEPT !.params = 0]
                  ELSE sts[sid].fit,
                  VDivBy(params, VSum(params)))

NormalizeArray(m, sid, sts, heap, pid, legacy) ==
    IF legacy /\ LegacyError(m, Len(heap[pid])) # "ok"
    THEN [err |-> LegacyError(m, Len(heap[pid])), stars |-> sts, arrs |-> heap]
    ELSE NormalizeParams(m, sid, sts, heap, pid, legacy,
            IF legacy
            THEN LegacyRemap(m, heap[pid], m.nparams - Len(heap[pid]))
            ELSE heap[pid])

NormalizeOn(m, sid, sts, heap) ==
    IF get_params(sts[sid].fit) = 0
    THEN [err |-> "TypeError", stars |-> sts, arrs |-> heap]
    ELSE NormalizeArray(m, sid, sts, heap, get_params(sts[sid].fit),
                        Len(heap[get_params(sts[sid].fit)]) < m.nparams)

\* the call returns its own star, changed in place, or raises
NormalizeReturn(sid, r, live) ==
    /\ stars' = live.stars
    /\ arrs' = live.arrs
    /\ last' = [op |-> "normalize", arg |-> sid, res |-> sid,
                err |-> r.err, pre |-> Snapshot]
    /\ UNCHANGED model

NormalizeCall(sid, r) == NormalizeReturn(sid, r, Compact(r.stars, r.arrs))

Normalize(sid) ==
    /\ Running
    /\ model.built
    /\ sid \in 1..Len(stars)
    /\ IF stars[sid].fit.params = 0 THEN TRUE
       ELSE VPlain(arrs[stars[sid].fit.params])
    /\ NormalizeCall(sid, NormalizeOn(model, sid, stars, arrs))

\* ------------------------------------------------------------------------
\* The body of fit after the draw_method check, as a function of the heaps
\* ------------------------------------------------------------------------

\* params = star.fit.get_params(num); params += dparam (in place)
AddInPlace(heap, pid, dparam) == [heap EXCEPT ![pid] = VAdd(heap[pid], dparam)]

\* what fit hands back: the heaps after normalize, with the linearization
\* (star1), the step and whether the inversion failed
FitResult(r, star1fit, dparam, inv) ==
    [stars |-> r.stars, arrs |-> r.arrs, err |-> r.err,
     star1 |-> star1fit, dparam |-> dparam, singular |-> inv.raises,
     exact |-> inv.exact /\ Exact(dparam)]

\* FitUpdate storing dparam as the new vector, without adding it to the
\* input
FitUpdateStepOnly(m, sid, sts, heap, star1fit, dparam, inv) ==
    FitResult(
        NormalizeOn(m, Len(sts) + 1,
            Append(sts,
                [data |-> sts[sid].data,
                 fit |-> newParams(star1fit, Len(heap) + 1,
                            ParamsVar(inv, m.nparams),
                            NewChisq(star1fit.chisq, star1fit.A, star1fit.b,
                                     dparam))]),
            Append(heap, dparam)),
        star1fit, dparam, inv)

\* FitUpdate with normalize called on the input star before the update and
\* not after it
FitUpdateNormalizeFirst(m, sid, sts, heap, star1fit, dparam, inv) ==
    FitResult(
        [err |-> "ok",
         stars |-> Append(sts,
             [data |-> sts[sid].data,
              fit |-> newParams(star1fit, Len(heap) + 1,
                         ParamsVar(inv, m.nparams),
                         NewChisq(star1fit.chisq, star1fit.A, star1fit.b,
                                  dparam))]),
         arrs |-> Append(heap,
             VAdd(IF m.fit_flux THEN heap[get_params(star1fit)]
                  ELSE VDivBy(heap[get_params(star1fit)],
                              VSum(heap[get_params(star1fit)])),
                  dparam))],
        star1fit, dparam, inv)

\* params += dparam on the array get_params returned, then
\* Star(star1.data, star1.fit.newParams(params, params_var, chisq)) and
\* self.normalize(star)
FitUpdate(m, sid, sts, heap, star1fit, dparam, inv) ==
    FitResult(
        NormalizeOn(m, Len(sts) + 1,
            Append(sts,
                [data |-> sts[sid].data,
                 fit |-> newParams(star1fit, Len(heap) + 1,
                            ParamsVar(inv, m.nparams),
                            NewChisq(star1fit.chisq, star1fit.A, star1fit.b,
                                     dparam))]),
            Append(AddInPlace(heap, get_params(star1fit), dparam),
                   VAdd(heap[get_params(star1fit)], dparam))),
        star1fit, dparam, inv)

\* dparam = lstsq(A, b); the covariance needs inv(A.T.dot(A))
FitSolve(m, sid, sts, heap, star1fit) ==
    FitUpdate(m, sid, sts, heap, star1fit,
              lstsq(star1fit.A, star1fit.b, m.nparams),
              Inverse(star1fit.A, m.nparams))

\* star1 = self.chisq(star); c is ChisqCalc of the star
FitOn(m, sid, sts, heap, c) ==
    FitSolve(m, sid, sts, heap, ChisqFit(sts[sid].fit, c))

\* the solve and the update are within the exact arithmetic
FitExact(r) ==
    /\ r.exact
    /\ Exact(<<r.stars[Len(r.stars)].fit.chisq>>)
    /\ r.stars[Len(r.stars)].fit.params_var # None
          => Exact(r.stars[Len(r.stars)].fit.params_var)
    /\ \A p \in 1..Len(r.arrs) : Exact(r.arrs[p])

\* the call returns a new Star, or raises
FitReturn(sid, draw_method, out, r, live) ==
    /\ out # "skip"
    /\ out = "ok" => FitExact(r)
    /\ IF out # "ok"
       THEN /\ last' = [op |-> "fit", arg |-> sid, res |-> 0,
                        draw_method |-> draw_method,
                        err |-> out, pre |-> Snapshot]
            /\ UNCHANGED <<model, arrs, stars>>
       ELSE /\ model' = getBasisProfile(model)
            /\ stars' = live.stars
            /\ arrs' = live.arrs
            /\ last' = [op |-> "fit", arg |-> sid, res |-> Len(stars) + 1,
                        draw_method |-> draw_method,
                        err |-> r.err, pre |-> Snapshot,
                        star1 |-> r.star1, dparam |-> r.dparam,
                        singular |-> r.singular]

FitFinish(sid, draw_method, out, r) ==
    FitReturn(sid, draw_method, out, r,
              IF out = "ok" THEN Compact(r.stars, r.arrs) ELSE <<>>)

FitCall(sid, star, c, r) ==
    \E draw_method \in DrawMethods :
        FitFinish(sid, draw_method,
                  ChisqOutcome(model, star, arrs, draw_method, c), r)

FitStar(sid, star, c) == FitCall(sid, star, c, FitOn(model, sid, stars, arrs, c))

Fit(sid) ==
    /\ Running
    /\ model.built
    /\ sid \in 1..Len(stars)
    /\ Len(stars) < MaxStars
    /\ FitStar(sid, stars[sid],
               ChisqCalc(model, stars[sid].fit, stars[sid].data,
                         arrs[get_params(stars[sid].fit)]))

\* ------------------------------------------------------------------------
\* Stars read from files: the parameter vector omits `short` cells (those
\* written under the old conventions omit 1 or 3)
\* ------------------------------------------------------------------------

LegacyKinds == {"zeros", "ramp"}

LegacyValues(kind, n) ==
    [k \in 1..n |-> IF kind = "zeros" THEN Zero ELSE Rat(k % 3, 4)] \o <<>>

LoadLegacy(kind, short) ==
    /\ Running
    /\ model.built
    /\ stars = <<>>
    /\ model.nparams - short >= 0
    /\ arrs' = Append(arrs, LegacyValues(kind, model.nparams - short))
    /\ stars' = Append(stars,
          [data |-> [kind |-> "blank"],
           fit |-> NewStarFit(Len(arrs) + 1, One, <<Zero, Zero>>)])
    /\ last' = [op |-> "load", res |-> Len(stars) + 1, err |-> "ok"]
    /\ UNCHANGED model

\* ------------------------------------------------------------------------
\* The specification
\* ------------------------------------------------------------------------

Sizes == -1..MaxSize
\* (scale, interp) of the models built: with scale 2 the unit stamp pixels
\* fall on half grid cells; the cubic kernel has weights 0 and 1 on whole
\* cells and is exercised between cells by the stamp centred off the pixels
Grids == {<<1, "Linear">>, <<2, "Linear">>, <<1, "Cubic">>}
ConfiguredInits == {NoInit, "delta", "bogus"}
\* the models built: the default configuration (scale 1, linear, init None,
\* fit_flux False) and those differing from it in one option, at every size
Differs(x, default) == IF x = default THEN 0 ELSE 1
Models ==
    {c \in Grids \X Sizes \X ConfiguredInits \X BOOLEAN :
        Differs(c[1], <<1, "Linear">>) + Differs(c[3], NoInit)
            + Differs(c[4], FALSE) <= 1}
\* the cells a loaded vector lacks: 1 or 3 (the old conventions), or
\* another number
Shorts == 1..4
\* (kind, center, flux) of the stamps the driver hands over
Stamps ==
    {<<"blank", <<Zero, Zero>>, One>>,
     <<"point", <<Zero, Zero>>, One>>,
     <<"point", <<One, Zero>>, One>>,
     <<"point", <<Rat(1, 4), Rat(-1, 2)>>, One>>,
     <<"ramp", <<Zero, Zero>>, FromInt(2)>>,
     <<"dark", <<Zero, Zero>>, One>>}

\* The driver hands the star it got back last to the next call; initialize
\* is called for the star it created or loaded (sid = 1, or a star that has no
\* parameters yet).
Next ==
    \/ \E c \in Models : Construct(c[1][1], c[2], c[1][2], c[3], c[4])
    \/ \E stamp \in Stamps : NewStar(stamp[1], stamp[2], stamp[3])
    \/ \E kind \in LegacyKinds, short \in Shorts : LoadLegacy(kind, short)
    \/ \E default_init \in InitMethods \cup {NoInit} :
            Initialize(Len(stars), default_init)
    \/ Chisq(Len(stars))
    \/ Fit(Len(stars))
    \/ Normalize(Len(stars))

Spec == Init /\ [][Next]_vars

\* ------------------------------------------------------------------------
\* Two stars sharing one model.  The driver has built the model and made two
\* stars from two stamps of different kinds; the first is initialized, the
\* second is initialized or still to be.  Calls are then made in any order
\* on any star of either lineage that is still held.
\* ------------------------------------------------------------------------

PairSizes == 1..2
PairModels == {<<1, "Linear">>} \X PairSizes \X {NoInit} \X BOOLEAN
PairSeconds == {<<"ramp", <<Zero, Zero>>, FromInt(2)>>,
                <<"dark", <<One, Zero>>, One>>}

PairStars(m, second, ready) ==
    <<[data |-> [kind |-> "point"],
       fit |-> newParams(NewStarFit(0, One, <<Zero, Zero>>), 1, None, None)],
      [data |-> [kind |-> second[1]],
       fit |-> IF ready
               THEN newParams(NewStarFit(0, second[3], second[2]), 2, None, None)
               ELSE NewStarFit(0, second[3], second[2])]>>

PairInit ==
    \E c \in PairModels, second \in PairSeconds, ready \in BOOLEAN :
        /\ model = NewModel(c[1][1], c[2], c[1][2], c[3], c[4])
        /\ stars = PairStars(model, second, ready)
        /\ arrs = IF ready
                  THEN <<InitParams(model, "hsm"), InitParams(model, "delta")>>
                  ELSE <<InitParams(model, "hsm")>>
        /\ last = NoCall

PairNext ==
    \E sid \in 1..Len(stars) :
        \/ \E default_init \in {NoInit, "delta"} : Initialize(sid, default_init)
        \/ Chisq(sid)
        \/ Fit(sid)
        \/ Normalize(sid)

PairSpec == PairInit /\ [][PairNext]_vars

\* ------------------------------------------------------------------------
\* The fit cycle on noise-free data.  The driver builds a model, makes a
\* star from a stamp that is the image of a grid (the delta grid for
\* "point", the Gaussian grid for "gauss" and "gaussmask", which has one
\* pixel of zero weight), initializes it with the delta method and then
\* calls chisq and fit on the star it got back last.
\* ------------------------------------------------------------------------

ConvModels == {c \in Models : c[2] > 0 /\ c[3] = NoInit}
ConvStamps ==
    {<<"point", <<Zero, Zero>>, One>>,
     <<"gauss", <<Zero, Zero>>, One>>,
     <<"gaussmask", <<Zero, Zero>>, One>>}

ConvNext ==
    \/ \E c \in ConvModels : Construct(c[1][1], c[2], c[1][2], c[3], c[4])
    \/ \E stamp \in ConvStamps : NewStar(stamp[1], stamp[2], stamp[3])
    \/ Initialize(Len(stars), "delta")
    \/ Chisq(Len(stars))
    \/ Fit(Len(stars))

ConvSpec == Init /\ [][ConvNext]_vars

\* ------------------------------------------------------------------------
\* The compatibility loader.  kwargs is the dict of a serialized model: a
\* function from the keys present to their values, all written as strings.
\* ------------------------------------------------------------------------

Absent == "<absent>"
KwKeys == {"degenerate", "start_sigma", "interp", "scale", "size", "init"}
\* the values a key is given in the files read, or Absent
KwOptions(k) ==
    CASE k = "degenerate" -> {Absent, "True", "False"}
      [] k = "start_sigma" -> {Absent, "1.0"}
      [] k = "interp" -> {Absent, "Lanczos(3)", "Linear", "None"}
      [] k = "scale" -> {Absent, "1"}
      [] k = "size" -> {Absent, "3"}
      [] k = "init" -> {Absent, "delta"}

\* the dict holding the keys of opt that are not Absent
Kwargs(opt) == [k \in {x \in KwKeys : opt[x] # Absent} |-> opt[k]]

\* kwargs.setdefault-like: d with d[key] = value
WithKey(d, key, value) ==
    [k \in DOMAIN d \cup {key} |-> IF k = key THEN value ELSE d[k]]

\* kwargs.pop(key, None)
Pop(d, key) == [k \in DOMAIN d \ {key} |-> d[k]]

\* fix_kwargs always setting interp to Lanczos(3)
fix_kwargsOverwrite(kwargs) ==
    WithKey(Pop(Pop(kwargs, "degenerate"), "start_sigma"),
            "interp", "Lanczos(3)")

\* PixelGrid._fix_kwargs: the dict after the call (it is changed in place)
fix_kwargs(kwargs) ==
    IF "interp" \notin DOMAIN Pop(Pop(kwargs, "degenerate"), "start_sigma")
    THEN WithKey(Pop(Pop(kwargs, "degenerate"), "start_sigma"),
                 "interp", "Lanczos(3)")
    ELSE Pop(Pop(kwargs, "degenerate"), "start_sigma")

\* a dict has been read from a file
FixInit ==
    /\ model = NoModel
    /\ arrs = <<>>
    /\ stars = <<>>
    /\ \E degenerate \in KwOptions("degenerate"),
          start_sigma \in KwOptions("start_sigma"),
          interp \in KwOptions("interp"),
          scale \in KwOptions("scale"),
          size \in KwOptions("size"),
          init \in KwOptions("init") :
            last = [op |-> "read", err |-> "ok",
                    kwargs |-> Kwargs([degenerate |-> degenerate,
                                       start_sigma |-> start_sigma,
                                       interp |-> interp, scale |-> scale,
                                       size |-> size, init |-> init])]

\* cls._fix_kwargs(kwargs), on a dict just read or on one already fixed
FixKwargs ==
    /\ last.op \in {"read", "fix"}
    /\ last' = [op |-> "fix", err |-> "ok", pre |-> last.kwargs,
                kwargs |-> fix_kwargs(last.kwargs)]
    /\ UNCHANGED <<model, arrs, stars>>

FixNext == FixKwargs

FixSpec == FixInit /\ [][FixNext]_vars

\* ------------------------------------------------------------------------
\* The fast separable path, one pixel at a time.  A model has been built, a
\* star made and a pixel of its data vector picked, at any position (on and
\* between the grid nodes, inside and outside the support) and of any
\* weight; the iteration of the loop for that pixel is run: the mask decides
\* whether the pixel is retained, and for a retained pixel the slices are
\* computed and the row of A is written.
\* ------------------------------------------------------------------------

RowSizes == 1..(MaxSize + 1)
RowModels == Grids \X RowSizes
RowCenters == {<<Zero, Zero>>, <<Rat(1, 4), Rat(-1, 2)>>}
\* pixel coordinates: the multiples of 1/2 up to beyond the widest support
PixReach == MaxSize + 3
PixCoords == {Rat(a, 2) : a \in (0 - 2 * PixReach)..(2 * PixReach)}
PixWeights == {Zero, One}

\* no iteration is run for a pixel the mask drops
NoSlice == [i1 |-> 0, i2 |-> 0, p1 |-> 0, p2 |-> 0]
NoRow == [ok |-> TRUE, su |-> NoSlice, sv |-> NoSlice, row |-> <<>>]

\* one entry of the data vector
Pixel(u, v, w) == [data |-> Zero, weight |-> w, u |-> u, v |-> v]
Pixels ==
    {Pixel(u, v, w) : u \in PixCoords, v \in PixCoords, w \in PixWeights}

RowInit ==
    \E c \in RowModels, center \in RowCenters, pix \in Pixels :
        /\ model = NewModel(c[1][1], c[2], c[1][2], NoInit, FALSE)
        /\ stars = <<[data |-> [kind |-> "blank"],
                      fit |-> NewStarFit(0, One, center)]>>
        /\ arrs = <<>>
        /\ last = [op |-> "pixel", err |-> "ok", pix |-> pix]

\* mask[i], and for a retained pixel the body of the loop
RowOfPixel(pix, kept, fast) ==
    /\ last' = [op |-> "row", err |-> "ok", pix |-> pix, kept |-> kept,
                fast |-> fast]
    /\ UNCHANGED <<model, arrs, stars>>

RowStep ==
    /\ last.op = "pixel"
    /\ RowOfPixel(last.pix, InMask(model, stars[1].fit, last.pix),
                  IF InMask(model, stars[1].fit, last.pix)
                  THEN FastRow(model, stars[1].fit, last.pix)
                  ELSE NoRow)

RowNext == RowStep

RowSpec == RowInit /\ [][RowNext]_vars

\* ------------------------------------------------------------------------
\* The slice bookkeeping of the fast path for kernels of any range: the
\* same iteration, followed up to the slices (the kernels of range 3 and 7
\* have no exact weights).
\* ------------------------------------------------------------------------

Kernels == {"Linear", "Cubic", "Lanczos(3)", "Lanczos(7)"}
SliceSizes == 1..(MaxSize + 2)
SliceModels == {1, 2} \X Kernels \X SliceSizes

SliceInit ==
    \E c \in SliceModels, center \in RowCenters, pix \in Pixels :
        /\ model = NewModel(c[1], c[3], c[2], NoInit, FALSE)
        /\ stars = <<[data |-> [kind |-> "blank"],
                      fit |-> NewStarFit(0, One, center)]>>
        /\ arrs = <<>>
        /\ last = [op |-> "pixel", err |-> "ok", pix |-> pix]

\* mask[i], and for a retained pixel i1, i2, p1, p2 and j1, j2, q1, q2
SliceOfPixel(pix, kept, su, sv) ==
    /\ last' = [op |-> "slice", err |-> "ok", pix |-> pix, kept |-> kept,
                su |-> su, sv |-> sv]
    /\ UNCHANGED <<model, arrs, stars>>

SliceStep ==
    /\ last.op = "pixel"
    /\ SliceOfPixel(last.pix, InMask(model, stars[1].fit, last.pix),
          IF InMask(model, stars[1].fit, last.pix)
          THEN AxisSlice(model, RFloor(GridU(model, stars[1].fit, last.pix)))
          ELSE NoSlice,
          IF InMask(model, stars[1].fit, last.pix)
          THEN AxisSlice(model, RFloor(GridV(model, stars[1].fit, last.pix)))
          ELSE NoSlice)

SliceNext == SliceStep

SliceSpec == SliceInit /\ [][SliceNext]_vars

\* ------------------------------------------------------------------------
\* The choice of the drawing path in chisq.  A convert_func, when given,
\* turns the model's profile into the profile that is drawn; of that
\* profile the choice reads two things: is_analytic_x, and whether it is a
\* galsim.Convolution.
\* ------------------------------------------------------------------------

\* convert_func: None, or a function building a galsim.Sum, a
\* galsim.Convolve (in Fourier space, or with real_space=True), or a
\* galsim.Deconvolve around the model's profile
ConvertFuncs == {"None", "Sum", "Convolve", "ConvolveReal", "Deconvolve"}

\* the profile that is drawn: the model's InterpolatedImage itself without a
\* convert_func
Composed(convert_func) ==
    CASE convert_func = "None" -> [is_analytic_x |-> TRUE, convolution |-> FALSE]
      [] convert_func = "Sum" -> [is_analytic_x |-> TRUE, convolution |-> FALSE]
      [] convert_func = "Convolve" -> [is_analytic_x |-> FALSE, convolution |-> TRUE]
      [] convert_func = "ConvolveReal" -> [is_analytic_x |-> TRUE, convolution |-> TRUE]
      [] convert_func = "Deconvolve" -> [is_analytic_x |-> FALSE, convolution |-> FALSE]

\* DrawReal reading is_analytic_x only
DrawRealAnalyticOnly(convert_func, prof) ==
    convert_func = "None" \/ prof.is_analytic_x

\* draw_real: convert_func is None or (prof.is_analytic_x and not
\* isinstance(prof, galsim.Convolution))
DrawReal(convert_func, prof) ==
    convert_func = "None" \/ (prof.is_analytic_x /\ ~prof.convolution)

\* a model has been built, a star initialized, and chisq is called with a
\* convert_func
DrawInit ==
    \E c \in ConvModels, center \in RowCenters, f \in ConvertFuncs :
        /\ model = NewModel(c[1][1], c[2], c[1][2], c[3], c[4])
        /\ stars = <<[data |-> [kind |-> "point"],
                      fit |-> newParams(NewStarFit(0, One, center), 1, None, None)]>>
        /\ arrs = <<InitParams(model, "delta")>>
        /\ last = [op |-> "convert", err |-> "ok", convert_func |-> f]

\* prof = convert_func(prof); then prof._drawReal(image) or
\* prof.drawFFT(image)
DrawProfile ==
    /\ last.op = "convert"
    /\ last' = [op |-> "draw", err |-> "ok",
                convert_func |-> last.convert_func,
                prof |-> Composed(last.convert_func),
                draw_real |-> DrawReal(last.convert_func,
                                       Composed(last.convert_func))]
    /\ UNCHANGED <<model, arrs, stars>>

DrawNext == DrawProfile

DrawSpec == DrawInit /\ [][DrawNext]_vars

\* ------------------------------------------------------------------------
\* _getBasisProfile called by two threads on one model whose cache does not
\* exist yet. The threads interleave between statements; each attribute
\* store and each attribute load is one step. model.basis holds the two
\* attributes: set is hasattr(self, '_basis_profile'), and the field shifts
\* exists when self._basis_shifts does.
\* ------------------------------------------------------------------------

Callers == {1, 2}

\* self._basis_profile = []
Placeholder == "[]"

HasShifts(m) == "shifts" \in DOMAIN m.basis

CacheInit ==
    /\ \E c \in RowModels :
          model = NewModel(c[1][1], c[2], c[1][2], NoInit, TRUE)
    /\ arrs = <<>>
    /\ stars = <<>>
    /\ last = [op |-> "basis", err |-> "ok",
               pc |-> [c \in Callers |-> "486"],
               profile |-> [c \in Callers |-> Placeholder],
               ret |-> [c \in Callers |-> <<>>]]

Goto(c, line) == [last EXCEPT !.pc[c] = line]

\* line 486: if not hasattr(self, '_basis_profile')
TestCache(c) ==
    /\ last.op = "basis"
    /\ last.pc[c] = "486"
    /\ last' = Goto(c, IF model.basis.set THEN "497" ELSE "487")
    /\ UNCHANGED <<model, arrs, stars>>

\* line 487: self._basis_profile = []
StorePlaceholder(c) ==
    /\ last.op = "basis"
    /\ last.pc[c] = "487"
    /\ model' = [model EXCEPT !.basis =
                    IF model.basis.set
                    THEN [model.basis EXCEPT !.profile = Placeholder]
                    ELSE [set |-> TRUE, profile |-> Placeholder]]
    /\ last' = Goto(c, "491")
    /\ UNCHANGED <<arrs, stars>>

\* lines 490-491: self._basis_profile = galsim.InterpolatedImage(...)
StoreProfile(c) ==
    /\ last.op = "basis"
    /\ last.pc[c] = "491"
    /\ model' = [model EXCEPT !.basis.profile = model.interp]
    /\ last' = Goto(c, "493")
    /\ UNCHANGED <<arrs, stars>>

\* lines 493-495: self._basis_shifts = np.meshgrid(...)
StoreShifts(c) ==
    /\ last.op = "basis"
    /\ last.pc[c] = "493"
    /\ model' = [model EXCEPT !.basis =
                    [set |-> TRUE, profile |-> model.basis.profile,
                     shifts |-> BasisOf(model).shifts]]
    /\ last' = Goto(c, "497")
    /\ UNCHANGED <<arrs, stars>>

\* line 497, first operand of the tuple: self._basis_profile
LoadProfile(c) ==
    /\ last.op = "basis"
    /\ last.pc[c] = "497"
    /\ last' = [last EXCEPT !.pc[c] = "497b",
                            !.profile[c] = model.basis.profile]
    /\ UNCHANGED <<model, arrs, stars>>

\* line 497, second operand and the return: self._basis_shifts
LoadShifts(c) ==
    /\ last.op = "basis"
    /\ last.pc[c] = "497b"
    /\ last' = IF HasShifts(model)
               THEN [last EXCEPT !.pc[c] = "returned",
                                 !.ret[c] = <<last.profile[c],
                                              model.basis.shifts>>]
               ELSE [last EXCEPT !.pc[c] = "AttributeError"]
    /\ UNCHANGED <<model, arrs, stars>>

CacheNext ==
    \E c \in Callers :
        \/ TestCache(c)
        \/ StorePlaceholder(c)
        \/ StoreProfile(c)
        \/ StoreShifts(c)
        \/ LoadProfile(c)
        \/ LoadShifts(c)

CacheSpec == CacheInit /\ [][CacheNext]_vars

\* ------------------------------------------------------------------------
\* Properties
\* ------------------------------------------------------------------------

\* the star the last call was given: as it was before the call, as it is now
ArgBefore == last.pre.stars[last.arg]
ArgNow == stars[last.arg]
\* the parameter vector of a star (<<>> when it has none)
ParamsOf(sts, heap, sid) ==
    IF sts[sid].fit.params = 0 THEN <<>> ELSE heap[sts[sid].fit.params]
ParamsIn == ParamsOf(last.pre.stars, last.pre.arrs, last.arg)
\* the star the last call returned
Result == stars[last.res]
ResultParams == ParamsOf(stars, arrs, last.res)
\* the last call was `op` and returned a star
Returned(op) == last.op = op /\ last.err = "ok" /\ last.res # 0

\* C1: after fit(star) returns, the input star holds exactly the values it
\* held before the call: its parameter vector, the rest of its fit record
\* and its pixel data.
C1_FitKeepsInput ==
    Returned("fit") =>
        /\ ParamsOf(stars, arrs, last.arg) = ParamsIn
        /\ [ArgNow.fit EXCEPT !.params = 0] = [ArgBefore.fit EXCEPT !.params = 0]
        /\ ArgNow.data = ArgBefore.data

\* C2: with fit_flux False, the parameter vector of a star sums to 1 after
\* normalize(star) and after fit(star), whatever calls came before.
C2_UnitSum ==
    (/\ last.op \in {"normalize", "fit"}
     /\ last.err = "ok"
     /\ ~model.fit_flux)
        => VSum(ResultParams) = One

\* C3: normalize on a vector of length nParams-3 remaps it to a vector of
\* length nParams whose first moments along both axes are zero and whose
\* central cell is 1/pixel_area minus the sum of the other cells.
Short3 == last.op = "normalize" /\ Len(ParamsIn) = model.nparams - 3
Remapped == LegacyRemap(model, ParamsIn, 3)
C3_LegacyRoundTrip ==
    Short3 =>
        /\ last.err = "ok"
        /\ Len(Remapped) = model.nparams
        /\ MomentU(model, Remapped) = Zero
        /\ MomentV(model, Remapped) = Zero
        /\ Remapped[CellIndex(model, model.origin, model.origin)] =
              RSub(Rat(1, model.pixel_area),
                   RSub(VSum(Remapped),
                        Remapped[CellIndex(model, model.origin, model.origin)]))

\* what normalize makes of a full-length vector
Normalized(m, x) == IF m.fit_flux THEN x ELSE VDivBy(x, VSum(x))

\* the linearization the last call computed: on the star chisq returned,
\* or on star1 inside fit
Linearized == IF last.op = "chisq" THEN Result.fit ELSE last.star1

\* C4: whenever A^T A is singular in fit, the call returns without an
\* error, every variance of the returned star is 1e100, and the returned
\* parameters are normalize(params_in + dp).
C4_SingularCovariance ==
    (/\ last.op = "fit"
     /\ last.res # 0
     /\ Rank(Gram(last.star1.A, model.nparams), model.nparams) < model.nparams)
        => /\ last.err = "ok"
           /\ Result.fit.params_var =
                 [k \in 1..model.nparams |-> Sci(1, 1, 100)] \o <<>>
           /\ ResultParams = Normalized(model, VAdd(ParamsIn, last.dparam))

C4_Witness ==
    /\ Returned("fit")
    /\ Rank(Gram(last.star1.A, model.nparams), model.nparams) < model.nparams
    /\ last.dparam # Zeros(model.nparams)
    /\ VFinite(ResultParams)

\* every weight of the stamp is zero
AllZeroWeights(data) == \A i \in 1..NPix : PixWeight(data.kind, i) = Zero

\* the last call was chisq or fit on a star holding nParams parameters,
\* with a draw_method they accept
CalledOnFull ==
    /\ last.op \in {"chisq", "fit"}
    /\ Len(ParamsIn) = model.nparams
    /\ last.draw_method \in {"None", "no_pixel"}

\* C5: on a star whose weights are all zero, chisq returns with dof = 0,
\* chisq = 0 and a design matrix of no rows; fit returns too, with a finite
\* parameter update.
C5_AllZeroWeights ==
    (CalledOnFull /\ AllZeroWeights(ArgBefore.data))
        => /\ last.err = "ok"
           /\ last.res # 0
           /\ Linearized.dof = Zero
           /\ Linearized.chisq = Zero
           /\ Linearized.A = <<>>
           /\ last.op = "fit" => VFinite(last.dparam)

C5_Witness ==
    /\ Returned("fit")
    /\ AllZeroWeights(ArgBefore.data)
    /\ model.size > 1

\* the pixels chisq is to retain: nonzero weight, and within maxuv of the
\* star's centre on both axes, bounds included
Retained(m, star) ==
    {i \in 1..NPix :
        /\ PixWeight(star.data.kind, i) # Zero
        /\ RLe(RAbs(RSub(FromInt(PixX(i)), star.fit.center[1])), m.maxuv)
        /\ RLe(RAbs(RSub(FromInt(PixY(i)), star.fit.center[2])), m.maxuv)}

\* the i-th pixel of a set of pixels, in the order of the data vector
Nth(S, i) == CHOOSE x \in S : Cardinality({y \in S : y <= x}) = i

\* A as the per-basis path builds it over the retained pixels, with the
\* flux and the weights applied
SlowA(m, star) ==
    [i \in 1..Cardinality(Retained(m, star)) |->
        VScale(VScale(SlowRow(m, star.fit,
                              getDataVector(star.data)[Nth(Retained(m, star), i)]),
                      star.fit.flux),
               RSqrt(PixWeight(star.data.kind, Nth(Retained(m, star), i))))]
    \o <<>>

\* C6: without a convert_func, the design matrix of the fast separable
\* path equals, entry by entry, the matrix of the per-basis path.
C6_SeparableEquivalence ==
    (last.op \in {"chisq", "fit"} /\ last.err = "ok")
        => Linearized.A = SlowA(model, ArgBefore)

C6_Witness ==
    /\ Returned("chisq")
    /\ model.interp = "Cubic"
    /\ model.size = MaxSize
    /\ ArgBefore.fit.center[1] \notin {Zero, One}
    /\ \E i \in 1..Len(Result.fit.A) :
          Cardinality({Result.fit.A[i][k] : k \in 1..model.nparams}
                      \ {Zero}) > 3

\* the weighted residuals over the retained pixels
Residuals(m, star, params) ==
    [i \in 1..Cardinality(Retained(m, star)) |->
        RMul(RSub(PixData(star.data.kind, Nth(Retained(m, star), i)),
                  RMul(DrawAt(m, star.fit, getProfile(m, params),
                              getDataVector(star.data)[Nth(Retained(m, star), i)]),
                       star.fit.flux)),
             RSqrt(PixWeight(star.data.kind, Nth(Retained(m, star), i))))]
    \o <<>>

\* C7: chisq retains exactly the pixels of nonzero weight within maxuv of
\* the centre on both axes (bounds included): A and b have one row per
\* retained pixel and none for any other, A has nParams columns, dof is the
\* number of retained pixels and chisq the sum of the squares of b.
C7_RetainedPixels ==
    Returned("chisq")
        => /\ Result.fit.dof = FromInt(Cardinality(Retained(model, ArgBefore)))
           /\ Len(Result.fit.A) = Cardinality(Retained(model, ArgBefore))
           /\ \A i \in 1..Len(Result.fit.A) :
                 Len(Result.fit.A[i]) = model.nparams
           /\ Result.fit.b = Residuals(model, ArgBefore, ParamsIn)
           /\ Result.fit.chisq = VDot(Result.fit.b, Result.fit.b)

C7_Witness ==
    /\ Returned("chisq")
    /\ \E i \in Retained(model, ArgBefore) :
          RAbs(RSub(FromInt(PixX(i)), ArgBefore.fit.center[1])) = model.maxuv
    /\ \E i \in 1..NPix :
          /\ PixWeight(ArgBefore.data.kind, i) # Zero
          /\ i \notin Retained(model, ArgBefore)
    /\ Result.fit.chisq # Zero

\* C8: the star chisq returns carries the parameter vector, flux and
\* centre of the input star and differs from it only in (A, b, chisq, dof);
\* the input star is unchanged; chisq on a star that chisq returned yields
\* the same (A, b, chisq, dof).
C8_ChisqKeepsParams ==
    Returned("chisq")
        => /\ Result.fit.params = ArgNow.fit.params
           /\ ResultParams = ParamsIn
           /\ Result.data = ArgBefore.data
           /\ [Result.fit EXCEPT !.A = <<>>, !.b = <<>>,
                                 !.chisq = None, !.dof = None]
                = [ArgBefore.fit EXCEPT !.A = <<>>, !.b = <<>>,
                                        !.chisq = None, !.dof = None]
           /\ ArgNow = ArgBefore
           /\ arrs = last.pre.arrs
           /\ ArgBefore.fit.dof # None => Result.fit = ArgBefore.fit

C8_Witness ==
    /\ Returned("chisq")
    /\ ArgBefore.fit.dof # None
    /\ Result.fit.chisq # Zero
    /\ Result.fit.flux # One

\* the left-hand side of the normal equations, A^T A dp, of the last fit
NormalLhs ==
    TransVec(last.star1.A, MatVec(last.star1.A, last.dparam), model.nparams)

\* C9: fit linearizes at the input parameters, solves A dp ~ b, adds dp to
\* the input parameters and only then normalizes: the returned parameters
\* are (params_in + dp) / sum(params_in + dp) with fit_flux False and
\* params_in + dp with fit_flux True.
C9_FitOrder ==
    Returned("fit")
        => /\ last.star1.b = Residuals(model, ArgBefore, ParamsIn)
           /\ Exact(NormalLhs) =>
                 NormalLhs = TransVec(last.star1.A, last.star1.b, model.nparams)
           /\ ResultParams =
                 IF model.fit_flux THEN VAdd(ParamsIn, last.dparam)
                 ELSE VDivBy(VAdd(ParamsIn, last.dparam),
                             VSum(VAdd(ParamsIn, last.dparam)))

C9_Witness ==
    /\ Returned("fit")
    /\ Exact(NormalLhs)
    /\ ~model.fit_flux
    /\ VSum(ParamsIn) = One
    /\ VSum(VAdd(ParamsIn, last.dparam)) \notin {Zero, One}
    /\ last.dparam # Zeros(model.nparams)

C11_FitFluxNormalize ==
    (/\ last.op = "normalize"
     /\ model.fit_flux
     /\ Len(ParamsIn) = model.nparams)
        => /\ last.err = "ok"
           /\ ResultParams = ParamsIn
           /\ ArgNow = ArgBefore
           /\ stars = last.pre.stars
           /\ arrs = last.pre.arrs

C11_Witness ==
    /\ last.op = "normalize"
    /\ last.err = "ok"
    /\ model.fit_flux
    /\ Len(ParamsIn) = model.nparams
    /\ VSum(ParamsIn) \notin {Zero, One}

\* the cells the vector normalize was given falls short of nParams
Shortfall == model.nparams - Len(ParamsIn)

\* C12: normalize on a star whose parameter vector is shorter than nParams
\* by a number other than 1 or 3 raises AssertionError, and the star, its
\* stored parameter vector included, is left exactly as it was.
C12_BadShortfall ==
    (/\ last.op = "normalize"
     /\ ArgBefore.fit.params # 0
     /\ Shortfall > 0
     /\ Shortfall \notin {1, 3})
        => /\ last.err = "AssertionError"
           /\ ArgNow = ArgBefore
           /\ ParamsOf(stars, arrs, last.arg) = ParamsIn
           /\ stars = last.pre.stars
           /\ arrs = last.pre.arrs

C12_Witness ==
    /\ last.op = "normalize"
    /\ last.err = "AssertionError"
    /\ Shortfall = 2
    /\ model.size = 2
    /\ ParamsIn # Zeros(Len(ParamsIn))

\* C13: constructing with size <= 0 raises ValueError whatever the scale,
\* kernel and flags, and no model comes of it; with size > 0 the constructor
\* does not raise and nParams = size * size.
C13_SizeCheck ==
    last.op = "init"
        => /\ last.size <= 0 <=> last.err = "ValueError"
           /\ last.size <= 0 => ~model.built
           /\ last.size > 0 =>
                 /\ last.err = "ok"
                 /\ model.built
                 /\ model.size = last.size
                 /\ model.nparams = last.size * last.size

C13_Witness ==
    /\ last.op = "init"
    /\ last.size < 0
    /\ last.fit_flux
    /\ last.err = "ValueError"

\* the method the last initialize call is to resolve: the configured init
\* when set, else the caller's default_init, else hsm
Resolved ==
    IF model.init # NoInit THEN model.init
    ELSE IF last.default_init # NoInit THEN last.default_init
    ELSE "hsm"

\* C14: initialize uses the configured init when set, else the caller's
\* default_init, else hsm; when that method is none of hsm, zero and delta it
\* raises ValueError, returns no star and leaves the input star as it was.
C14_InvalidInit ==
    last.op = "initialize"
        => /\ last.init = Resolved
           /\ Resolved \notin {"hsm", "zero", "delta"} =>
                 /\ last.err = "ValueError"
                 /\ last.res = 0
                 /\ ArgNow = ArgBefore
                 /\ stars = last.pre.stars
                 /\ arrs = last.pre.arrs
           /\ last.err = "ok" =>
                 /\ Resolved \in {"hsm", "zero", "delta"}
                 /\ ResultParams = InitParams(model, Resolved)

C14_Witness ==
    /\ last.op = "initialize"
    /\ last.err = "ValueError"
    /\ last.res = 0
    /\ model.init = "bogus"
    /\ last.default_init = "delta"

\* the vector of n * n entries that is 1 at the flat index
\* (n // 2) * n + (n // 2), counted from 0, and 0 elsewhere
DeltaAt(n) ==
    [k \in 1..(n * n) |->
        IF k - 1 = (n \div 2) * n + (n \div 2) THEN One ELSE Zero] \o <<>>

\* C15: initialize with the delta method returns a vector of size * size
\* entries that is 1 at the flat index (size // 2) * size + (size // 2) and 0
\* elsewhere, for odd and even sizes; for size 7 that is the cell (3, 3).
C15_DeltaInit ==
    (Returned("initialize") /\ last.init = "delta")
        => /\ Len(ResultParams) = model.size * model.size
           /\ ResultParams = DeltaAt(model.size)
           /\ VSum(ResultParams) = One
           /\ LET seven == InitParams(NewModel(model.scale, 7, model.interp,
                                               model.init, model.fit_flux),
                                      "delta")
              IN  /\ Len(seven) = 49
                  /\ \A r \in 0..6, c \in 0..6 :
                        seven[r * 7 + c + 1] =
                            IF r = 3 /\ c = 3 THEN One ELSE Zero

C15_Witness ==
    /\ Returned("initialize")
    /\ last.init = "delta"
    /\ model.size = 2
    /\ ResultParams = <<Zero, Zero, Zero, One>>

\* C16: initialize does not change its input star, whatever the method: the
\* star's data, fit record and stored parameter vector are after the call
\* what they were before it, as is every other star; the new parameter
\* vector is a new array, held by the returned star only.
C16_InitializeKeepsInput ==
    last.op = "initialize"
        => /\ ArgNow = ArgBefore
           /\ ParamsOf(stars, arrs, last.arg) = ParamsIn
           /\ SubSeq(stars, 1, Len(last.pre.stars)) = last.pre.stars
           /\ SubSeq(arrs, 1, Len(last.pre.arrs)) = last.pre.arrs
           /\ last.err = "ok" =>
                 /\ last.res = Len(last.pre.stars) + 1
                 /\ Result.fit.params = Len(last.pre.arrs) + 1
                 /\ \A j \in 1..Len(last.pre.stars) :
                       stars[j].fit.params # Result.fit.params
                 /\ Result.data = ArgBefore.data
                 /\ Result.fit.flux = ArgBefore.fit.flux
                 /\ Result.fit.center = ArgBefore.fit.center

C16_Witness ==
    /\ Returned("initialize")
    /\ last.init = "zero"
    /\ ArgBefore.fit.flux # One
    /\ ArgNow.fit.params = 0
    /\ Result.fit.params # 0

\* C17: fit and chisq called with a draw_method other than None and
\* 'no_pixel' raise AssertionError before anything else is done: no star is
\* returned, and the stars, their arrays and the model (its basis cache
\* included) are as before the call; with None or 'no_pixel' the assertion
\* does not fail.
C17_DrawMethodCheck ==
    last.op \in {"chisq", "fit"}
        => /\ last.draw_method \notin {"None", "no_pixel"} =>
                 /\ last.err = "AssertionError"
                 /\ last.res = 0
                 /\ stars = last.pre.stars
                 /\ arrs = last.pre.arrs
                 /\ model = last.pre.model
           /\ last.draw_method \in {"None", "no_pixel"} =>
                 last.err # "AssertionError"

\* the assertion fails on a star the call would otherwise have fitted
C17_Witness ==
    /\ last.op = "fit"
    /\ last.draw_method = "auto"
    /\ last.err = "AssertionError"
    /\ ~model.basis.set
    /\ Len(ParamsIn) = model.nparams
    /\ ~model.fit_flux => VSum(ParamsIn) = One

\* the configuration of a model: everything but the basis cache
Config(m) == [m EXCEPT !.basis = [set |-> FALSE]]

\* what a star holds: data, fit record and the values of its parameters
StarView(sts, heap, j) ==
    [data |-> sts[j].data,
     fit |-> [sts[j].fit EXCEPT !.params = 0],
     params |-> ParamsOf(sts, heap, j)]

C19_FixKwargs ==
    last.op = "fix"
        => /\ DOMAIN last.kwargs =
                 (DOMAIN last.pre \ {"degenerate", "start_sigma"})
                     \cup {"interp"}
           /\ last.kwargs["interp"] =
                 IF "interp" \in DOMAIN last.pre THEN last.pre["interp"]
                 ELSE "Lanczos(3)"
           /\ \A k \in DOMAIN last.kwargs \ {"interp"} :
                 last.kwargs[k] = last.pre[k]
           /\ fix_kwargs(last.kwargs) = last.kwargs

\* an old file: both obsolete keys, no interp, other keys present
C19_Witness ==
    /\ last.op = "fix"
    /\ {"degenerate", "start_sigma", "scale", "size"} \subseteq DOMAIN last.pre
    /\ "interp" \notin DOMAIN last.pre
    /\ last.kwargs = [interp |-> "Lanczos(3)", scale |-> "1", size |-> "3"]

\* the grid a stamp is the image of
KnownGrid(m, star) ==
    IF star.data.kind = "point" THEN InitParams(m, "delta")
    ELSE InitParams(m, "hsm")

\* the data of the star is, pixel by pixel, the noise-free image of `grid`
\* drawn by the model at the star's centre and flux
Rendered(m, star, grid) ==
    \A i \in 1..NPix :
        PixData(star.data.kind, i) =
            RMul(DrawAt(m, star.fit, getProfile(m, grid),
                        getDataVector(star.data)[i]),
                 star.fit.flux)

\* the chisq of a star at a parameter vector: what the next chisq call
\* computes
ChisqAt(m, star, params) ==
    VDot(Residuals(m, star, params), Residuals(m, star, params))

\* the last call was a fit, in a cycle started from the delta
\* initialization, on a star whose data is the image of its known grid
ConvergenceStep ==
    /\ Returned("fit")
    /\ VFinite(ResultParams)
    /\ Rendered(model, ArgBefore, KnownGrid(model, ArgBefore))

FullRank ==
    Rank(Gram(last.star1.A, model.nparams), model.nparams) = model.nparams

PixU == GridU(model, stars[1].fit, last.pix)
PixV == GridV(model, stars[1].fit, last.pix)

\* grid node k lies in the window of the pixel at (gu, gv):
\* ui - xr + 1 <= col - origin <= ui + xr, and the same for the rows
InWindow(m, gu, gv, k) ==
    LET xr == RCeil(XRange(m.interp))
        c == GridCol(m, k) - m.origin
        r == GridRow(m, k) - m.origin
    IN  /\ RFloor(gu) - xr + 1 <= c
        /\ c <= RFloor(gu) + xr
        /\ RFloor(gv) - xr + 1 <= r
        /\ r <= RFloor(gv) + xr

\* the kernel weight for the offset (col - origin) - gu times the kernel
\* weight for the offset (row - origin) - gv
KernelProduct(m, gu, gv, k) ==
    RMul(XVal(m.interp, RSub(FromInt(GridCol(m, k) - m.origin), gu)),
         XVal(m.interp, RSub(FromInt(GridRow(m, k) - m.origin), gv)))

\* C21: in the fast separable path the row of A of a retained pixel is
\* written only at the grid nodes inside the pixel's window clipped to the
\* grid, every other entry is 0, and the value written at node (r, c) is the
\* kernel weight for the offset (c - origin) - (u - u0)/scale times the
\* kernel weight for the offset (r - origin) - (v - v0)/scale: window
\* positions off the grid are dropped and no weight moves to another node.
C21_WindowClipping ==
    (last.op = "row" /\ last.kept)
        => /\ last.fast.ok
           /\ Len(last.fast.row) = model.nparams
           /\ \A k \in 1..model.nparams :
                 last.fast.row[k] =
                    IF InWindow(model, PixU, PixV, k)
                    THEN KernelProduct(model, PixU, PixV, k)
                    ELSE Zero

\* C21 (amended): the same, with the value written at node (r, c) being the
\* product of the two kernel weights times the pixel-area ratio of the
\* star's pixels to the grid cells (flux_scaling).
C21_WindowClippingScaled ==
    (last.op = "row" /\ last.kept)
        => /\ last.fast.ok
           /\ Len(last.fast.row) = model.nparams
           /\ \A k \in 1..model.nparams :
                 last.fast.row[k] =
                    IF InWindow(model, PixU, PixV, k)
                    THEN RMul(FluxScaling(model),
                              KernelProduct(model, PixU, PixV, k))
                    ELSE Zero

\* a pixel between the nodes whose window is cut at the low edge of the
\* grid along u and at the high edge along v, on a grid of cells of area 4
C21_Witness ==
    /\ last.op = "row"
    /\ last.kept
    /\ model.scale = 2
    /\ last.fast.su.p1 > 0
    /\ last.fast.sv.p2 < 2 * Xr(model)
    /\ \E k \in 1..model.nparams :
          /\ last.fast.row[k] \notin {Zero, One, FluxScaling(model)}
          /\ InWindow(model, PixU, PixV, k)
    /\ \E k \in 1..model.nparams : ~InWindow(model, PixU, PixV, k)

\* the slices of one axis are in bounds, in order and of equal length
SliceInBounds(m, s) ==
    /\ 0 <= s.i1
    /\ s.i1 <= s.i2
    /\ s.i2 <= m.size
    /\ 0 <= s.p1
    /\ s.p1 <= s.p2
    /\ s.p2 <= 2 * RCeil(XRange(m.interp))
    /\ s.i2 - s.i1 = s.p2 - s.p1

\* C22: in every iteration of the fast path's loop over the retained
\* pixels, for every grid size and kernel range, the slices satisfy
\* 0 <= i1 <= i2 <= size, 0 <= p1 <= p2 <= 2 xr and i2 - i1 = p2 - p1, and
\* the same for j1, j2, q1, q2: no slice bound is negative and as many nodes
\* are written as weights are supplied.
C22_SliceBounds ==
    (last.op = "slice" /\ last.kept)
        => /\ SliceInBounds(model, last.su)
           /\ SliceInBounds(model, last.sv)

\* a kernel far wider than the grid, cut at both edges along u, for a pixel
\* on the rim of the support along v
C22_Witness ==
    /\ last.op = "slice"
    /\ last.kept
    /\ model.interp = "Lanczos(7)"
    /\ model.size > 1
    /\ last.su.p1 > 0
    /\ last.su.p2 < 14
    /\ RAbs(RSub(last.pix.v, stars[1].fit.center[2])) = model.maxuv
    /\ last.su.i2 - last.su.i1 = model.size

\* C23: after normalize has returned on a star whose parameter vector was
\* short by 1 or by 3, the star's fit record holds a parameter vector of
\* exactly nParams entries, with fit_flux False and with fit_flux True: the
\* star is never left without a parameter vector.
C23_LegacyKeepsVector ==
    (/\ last.op = "normalize"
     /\ last.err = "ok"
     /\ ArgBefore.fit.params # 0
     /\ Shortfall \in {1, 3})
        => /\ ArgNow.fit.params # 0
           /\ Len(ParamsOf(stars, arrs, last.arg)) = model.nparams

\* the grid cell of the flat index k (counted from 1): its column and row
\* offsets from the origin size // 2
NodeDu(m, k) == ((k - 1) % m.size) - (m.size \div 2)
NodeDv(m, k) == ((k - 1) \div m.size) - (m.size \div 2)

\* the first moments of a grid along the columns and along the rows
ColMoment(m, x) ==
    VSum([k \in 1..Len(x) |-> RMul(FromInt(NodeDu(m, k)), x[k])] \o <<>>)
RowMoment(m, x) ==
    VSum([k \in 1..Len(x) |-> RMul(FromInt(NodeDv(m, k)), x[k])] \o <<>>)

\* the entry of A for the retained pixel at (x, y) of weight w and the flat
\* index k, when u runs along the columns and v along the rows
EntryAt(m, fit, x, y, w, k) ==
    RMul(RMul(fit.flux, RSqrt(w)),
         RMul(Rat(1, m.scale * m.scale),
              RMul(XVal(m.interp,
                        RSub(FromInt(NodeDu(m, k)),
                             RDiv(RSub(FromInt(x), fit.center[1]),
                                  FromInt(m.scale)))),
                   XVal(m.interp,
                        RSub(FromInt(NodeDv(m, k)),
                             RDiv(RSub(FromInt(y), fit.center[2]),
                                  FromInt(m.scale)))))))

\* column k of A has, pixel by pixel, the entries of the flat index k
ColumnsByIndex(m, star, A, kept) ==
    \A i \in 1..Len(A) :
        \A k \in 1..m.nparams :
            A[i][k] = EntryAt(m, star.fit, PixX(Nth(kept, i)), PixY(Nth(kept, i)),
                              PixWeight(star.data.kind, Nth(kept, i)), k)

\* C24: the flat parameter index k stands for the grid cell (row, col) =
\* (k div size, k mod size) and the basis shift (du, dv) = (col - origin,
\* row - origin) with origin = size // 2, and u runs along the columns and v
\* along the rows everywhere: in the vector initialize builds, in the basis
\* shifts, in the columns of A the fast path writes and in the cells the
\* legacy remap solves for.
C24_GridIndexing ==
    /\ (model.built /\ model.basis.set) =>
          \A k \in 1..model.nparams :
              model.basis.shifts[k] = <<NodeDu(model, k), NodeDv(model, k)>>
    /\ (Returned("initialize") /\ last.init = "delta") =>
          \A k \in 1..model.nparams :
              ResultParams[k] =
                  IF NodeDu(model, k) = 0 /\ NodeDv(model, k) = 0
                  THEN One ELSE Zero
    /\ (Returned("initialize") /\ last.init = "hsm") =>
          \A k \in 1..model.nparams :
              RMul(ResultParams[k],
                   FromInt(Pow(2, NodeDu(model, k) * NodeDu(model, k)
                                  + NodeDv(model, k) * NodeDv(model, k))))
                = ResultParams[(model.size \div 2) * (model.size + 1) + 1]
    /\ Returned("chisq") =>
          ColumnsByIndex(model, ArgBefore, Result.fit.A,
                         Retained(model, ArgBefore))
    /\ (Short3 /\ last.err = "ok" /\ ~model.fit_flux
           /\ VFinite(ResultParams)) =>
          /\ Exact(<<ColMoment(model, ResultParams)>>) =>
                ColMoment(model, ResultParams) = Zero
          /\ Exact(<<RowMoment(model, ResultParams)>>) =>
                RowMoment(model, ResultParams) = Zero

\* a star off the grid nodes by another amount along u than along v, whose
\* design matrix is not the one of the transposed grid
C24_Witness ==
    /\ Returned("chisq")
    /\ model.size = MaxSize
    /\ model.basis.set
    /\ ArgBefore.fit.center[1] # ArgBefore.fit.center[2]
    /\ \E i \in 1..Len(Result.fit.A) :
          \E k \in 1..model.nparams :
              /\ Result.fit.A[i][k] # Zero
              /\ Result.fit.A[i][k] #
                    Result.fit.A[i][(NodeDu(model, k) + model.size \div 2)
                                        * model.size
                                    + NodeDv(model, k) + model.size \div 2 + 1]

\* the flat index (counted from 1) of the grid cell (row, col)
FlatIndex(m, row, col) == row * m.size + col + 1

\* the cells the legacy vector does not supply: the central cell, and when
\* three are missing the cells one row down and one column right of it
ReservedCells(m, short) ==
    IF short = 3
    THEN {FlatIndex(m, m.size \div 2, m.size \div 2),
          FlatIndex(m, m.size \div 2 + 1, m.size \div 2),
          FlatIndex(m, m.size \div 2, m.size \div 2 + 1)}
    ELSE {FlatIndex(m, m.size \div 2, m.size \div 2)}

\* the entries of x at the indices 1..n outside `skip`, in their order
RECURSIVE Others(_, _, _)
Others(x, skip, n) ==
    IF n = 0 THEN <<>>
    ELSE IF n \in skip THEN Others(x, skip, n - 1)
    ELSE Append(Others(x, skip, n - 1), x[n])

\* x with the cells of `cells` set to 0
Without(x, cells) == [k \in 1..Len(x) |-> IF k \in cells THEN Zero ELSE x[k]] \o <<>>

\* the full grid `temp` the remap of the last normalize call builds
Temp == LegacyRemap(model, ParamsIn, Shortfall)

\* the last call was normalize on a vector short by 1 or by 3, and the
\* remap completed
RemapDone ==
    /\ last.op = "normalize"
    /\ last.err = "ok"
    /\ ArgBefore.fit.params # 0
    /\ Shortfall \in {1, 3}

\* C25: the backward-compatibility remap copies the supplied values
\* unchanged, in row-major order, into all grid cells except the reserved
\* ones: the central cell (origin, origin) when short by 1, and also
\* (origin+1, origin) and (origin, origin+1) when short by 3; the neighbour
\* cells are filled first, from the first moments of the supplied values,
\* and the central cell last, from a sum that already includes them.
C25_LegacyScatter ==
    RemapDone
        => /\ Len(Temp) = model.nparams
           /\ Others(Temp, ReservedCells(model, Shortfall), model.nparams)
                 = ParamsIn
           /\ Shortfall = 3 =>
                 /\ Temp[FlatIndex(model, model.size \div 2 + 1, model.size \div 2)]
                       = RNeg(RowMoment(model,
                                Without(Temp, ReservedCells(model, 3))))
                 /\ Temp[FlatIndex(model, model.size \div 2, model.size \div 2 + 1)]
                       = RNeg(ColMoment(model,
                                Without(Temp, ReservedCells(model, 3))))
           /\ Temp[FlatIndex(model, model.size \div 2, model.size \div 2)]
                 = RSub(Rat(1, model.scale * model.scale),
                        VSum(Without(Temp,
                               {FlatIndex(model, model.size \div 2,
                                          model.size \div 2)})))
           /\ ~model.fit_flux => ResultParams = VDivBy(Temp, VSum(Temp))

\* a vector short by 3 whose remap gives both neighbour cells a value
C25_Witness ==
    /\ RemapDone
    /\ Shortfall = 3
    /\ ~model.fit_flux
    /\ Temp[FlatIndex(model, model.size \div 2 + 1, model.size \div 2)] # Zero
    /\ Temp[FlatIndex(model, model.size \div 2, model.size \div 2 + 1)] # Zero
    /\ VFinite(ResultParams)

C27_NeighboursInGrid ==
    (/\ last.op = "normalize"
     /\ ArgBefore.fit.params # 0
     /\ model.size >= 2
     /\ Shortfall = 3)
        => /\ last.err # "IndexError"
           /\ model.size \div 2 + 1 < model.size
           /\ last.err = "ok"

\* b - A dp of the last fit
FitResidual ==
    VAdd(last.star1.b,
         VScale(MatVec(last.star1.A, last.dparam), FromInt(-1)))

C29_CompletePairs ==
    last.op = "basis" =>
        \A c \in Callers :
            /\ last.pc[c] # "AttributeError"
            /\ last.pc[c] = "returned" =>
                   last.ret[c] = <<model.interp, BasisOf(model).shifts>>

\* the residual of the last fit is zero on every retained pixel
ZeroResidual == \A i \in 1..Len(last.star1.b) : last.star1.b[i] = Zero

\* a fit returns a star with the parameter vector `params` and chisq 0
FitGives(r, params) ==
    /\ r.err = "ok"
    /\ ParamsOf(r.stars, r.arrs, Len(r.stars)) = params
    /\ r.stars[Len(r.stars)].fit.chisq = Zero

\* fit called on the star the last call returned
FitAgain ==
    FitOn(model, last.res, stars, arrs,
          ChisqCalc(model, Result.fit, Result.data, ResultParams))

\* C30: when the residual b at the input parameters is zero on every
\* retained pixel, the solve gives dp = 0; if moreover the input vector sums
\* to 1, or fit_flux is set, fit returns the values of the input and a
\* chisq of 0, and a second fit, on the star returned, returns these values
\* and a chisq of 0 again.
C30_FixedPoint ==
    (Returned("fit") /\ ZeroResidual)
        => /\ last.dparam = Zeros(model.nparams)
           /\ (model.fit_flux \/ VSum(ParamsIn) = One)
                 => /\ ResultParams = ParamsIn
                    /\ Result.fit.chisq = Zero
                    /\ FitGives(FitAgain, ParamsIn)

\* the second of two fits in a row, without fit_flux, on a star with
\* retained pixels whose data is matched exactly by a vector that sums to 1
C30_Witness ==
    /\ Returned("fit")
    /\ ZeroResidual
    /\ ArgBefore.fit.chisq = Zero
    /\ last.star1.b # <<>>
    /\ ~model.fit_flux
    /\ VSum(ParamsIn) = One
    /\ model.nparams > 1
    /\ ResultParams = ParamsIn

====
